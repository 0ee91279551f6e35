--------------------------- MODULE InterviewProofs ---------------------------
(* The hiring interviews, for any candidates, jobs, sessions, tabs, workers *)
(* and HR requests.  First the rows: one application per job, one employee  *)
(* per person.  Then the answers: a score is for the stored submission, and *)
(* a candidate is evaluated on a finished interview.                        *)
EXTENDS Interview, FiniteSetTheorems, TLAPS

AnswerRows == [status : AnswerStatuses, text : Nat, graded : Nat, overdue : BOOLEAN]
TabRows == [pc : {"idle", "reading", "publishing"}, s : Sessions \cup {None},
            q : Questions \cup {0}, row : BOOLEAN, status : SessionStatuses]
WorkerRows == [pc : {"idle", "reading", "grading"}, s : Sessions \cup {None},
               q : Questions \cup {0}, text : Nat, cand : CandidateRow,
               sess : SessionRow, job : JobRow]
StaffRows == [pc : {"idle", "hashing"}, cand : Candidates \cup {None}, code : Codes \cup {None}]

Typed ==
    /\ jobs \in [Jobs -> JobRow]
    /\ cand \in [Candidates -> CandidateRow]
    /\ sess \in [Sessions -> SessionRow]
    /\ ans \in [Sessions -> [Questions -> AnswerRows]]
    /\ queue \in [Sessions -> [Questions -> Nat]]
    /\ tab \in [Tabs -> TabRows]
    /\ wk \in [Workers -> WorkerRows]
    /\ hr \in [Staff -> StaffRows]
    /\ employees \in [Codes -> Candidates \cup {None}]

\* A request and a task hold an answer of a session.
Placed ==
    /\ \A t \in Tabs : tab[t].pc # "idle" => tab[t].s \in Sessions /\ tab[t].q \in Questions
    /\ \A w \in Workers : wk[w].pc # "idle" => wk[w].s \in Sessions /\ wk[w].q \in Questions
    /\ \A h \in Staff : hr[h].pc = "hashing" => hr[h].cand \in Candidates /\ hr[h].code \in Codes

\* An application is for a job; a session that is there belongs to a candidate that is there.
Owned ==
    /\ \A c \in Candidates : Exists(c) => cand[c].job \in Jobs
    /\ \A s \in Sessions : Present(s) => /\ sess[s].cand \in Candidates /\ Exists(sess[s].cand)
                                         /\ sess[s].job \in Jobs

\* With a national ID, two codes are never both taken.
HiredOnce ==
    HasNationalId => \A k, l \in Codes : employees[k] # None /\ employees[l] # None => k = l

RowsInv == Typed /\ Placed /\ Owned /\ OneRowPerJob /\ HiredOnce

LEMMA EmptyRows ==
    /\ NoJob \in JobRow /\ NoCandidate \in CandidateRow /\ NoSession \in SessionRow
    /\ NoAnswer \in AnswerRows /\ IdleTab \in TabRows /\ IdleWorker \in WorkerRows
    /\ IdleStaff \in StaffRows
<1>1. NoJob \in JobRow /\ NoCandidate \in CandidateRow /\ NoSession \in SessionRow
  BY DEF NoJob, JobRow, JobStatuses, NoCandidate, CandidateRow, CandidateStatuses,
         NoSession, SessionRow, SessionStatuses
<1>2. NoAnswer \in AnswerRows /\ IdleTab \in TabRows /\ IdleStaff \in StaffRows
  BY DEF NoAnswer, AnswerRows, AnswerStatuses, IdleTab, TabRows, SessionStatuses,
         IdleStaff, StaffRows
<1>3. IdleWorker \in WorkerRows
  BY <1>1 DEF IdleWorker, WorkerRows
<1>. QED  BY <1>1, <1>2, <1>3

LEMMA NewRowTyped ==
    ASSUME NEW j \in Jobs \cup {None}, NEW c \in Candidates, NEW n \in QuestionCounts \cup {0}
    PROVE  /\ NewRow(j) \in CandidateRow
           /\ NewRow(j).job = j /\ NewRow(j).status = "applied"
           /\ Opened(c, j, n) \in SessionRow
           /\ Opened(c, j, n).cand = c /\ Opened(c, j, n).status = "invited"
           /\ Opened(c, j, n).count = n /\ Opened(c, j, n).job = j
BY DEF NewRow, Opened, NoCandidate, NoSession, CandidateRow, CandidateStatuses, SessionRow,
       SessionStatuses

LEMMA InitRows == Init => RowsInv
<1>. SUFFICES ASSUME Init PROVE RowsInv
  OBVIOUS
<1>1. Typed
  BY EmptyRows DEF Init, Typed
<1>2. Placed
  BY DEF Init, Placed, IdleTab, IdleWorker, IdleStaff
<1>3. Owned
  BY DEF Init, Owned, Present, Exists, NoSession, NoCandidate
<1>4. OneRowPerJob
  BY DEF Init, OneRowPerJob, Exists, NoCandidate
<1>5. HiredOnce
  BY DEF Init, HiredOnce
<1>. QED  BY <1>1, <1>2, <1>3, <1>4, <1>5 DEF RowsInv

(* What a step does to the candidates. *)

There(row) == row.status \notin {"absent", "deleted"}

\* No application begins, moves to another job or is deleted.
SameApplications ==
    \A c \in Candidates : /\ There(cand'[c]) <=> There(cand[c])
                          /\ There(cand[c]) => cand'[c].job = cand[c].job

\* The sessions that are there afterwards were there before, of the same application.
SameSessions ==
    \A s \in Sessions : There(sess'[s]) =>
        There(sess[s]) /\ sess'[s].cand = sess[s].cand /\ sess'[s].job = sess[s].job

LEMMA SameApplicationsKeep ==
    ASSUME RowsInv, SameApplications
    PROVE  OneRowPerJob'
BY DEF RowsInv, SameApplications, OneRowPerJob, Exists, There

LEMMA SameSessionsKeep ==
    ASSUME RowsInv, SameApplications, SameSessions
    PROVE  Owned'
BY DEF RowsInv, SameApplications, SameSessions, Owned, Present, Exists, There

LEMMA StatusSet ==
    ASSUME Typed, NEW c, NEW status \in CandidateStatuses, SetStatus(c, status)
    PROVE  /\ cand' \in [Candidates -> CandidateRow]
           /\ \A d \in Candidates : cand'[d].job = cand[d].job
           /\ \A d \in Candidates \ {c} : cand'[d] = cand[d]
           /\ c \in Candidates => cand'[c].status = status
<1>1. cand' = [cand EXCEPT ![c] = [cand[c] EXCEPT !.status = status]]
  BY DEF SetStatus
<1>2. ASSUME c \in Candidates
      PROVE  /\ [cand[c] EXCEPT !.status = status] \in CandidateRow
             /\ [cand[c] EXCEPT !.status = status].job = cand[c].job
             /\ [cand[c] EXCEPT !.status = status].status = status
  BY <1>2 DEF Typed, CandidateRow
<1>. QED  BY <1>1, <1>2 DEF Typed

\* A status that keeps a row where it is.
LEMMA StatusKeeps ==
    ASSUME Typed, NEW c \in Candidates, There(cand[c]),
           NEW status \in CandidateStatuses \ {"absent", "deleted"}, SetStatus(c, status)
    PROVE  cand' \in [Candidates -> CandidateRow] /\ SameApplications
BY StatusSet DEF SameApplications, There

LEMMA SyncedStatus ==
    ASSUME NEW c, NEW me, NEW S, NEW A, NEW J, NEW T
    PROVE  \/ Synced(c, me, S, A, J, T) = me.status
           \/ Synced(c, me, S, A, J, T) = "evaluated" /\ me.status = "interviewing"
BY DEF Synced

LEMMA RowsKept ==
    ASSUME RowsInv, Typed', Placed', SameApplications, SameSessions, HiredOnce'
    PROVE  RowsInv'
BY SameApplicationsKeep, SameSessionsKeep DEF RowsInv

\* Steps that change the candidates alone, or nothing of them.
LEMMA CandidatesAlone ==
    ASSUME RowsInv, SameApplications, cand' \in [Candidates -> CandidateRow],
           UNCHANGED << jobs, sess, ans, queue, tab, hr, wk, employees >>
    PROVE  RowsInv'
<1>1. Typed' /\ Placed' /\ HiredOnce'
  BY DEF RowsInv, Typed, Placed, HiredOnce
<1>2. SameSessions
  BY DEF SameSessions
<1>. QED  BY <1>1, <1>2, RowsKept

LEMMA NothingMoves ==
    ASSUME UNCHANGED cand
    PROVE  SameApplications
BY DEF SameApplications

LEMMA JobStep ==
    ASSUME RowsInv, NEW j \in Jobs, CreateJob(j) \/ UpdateJob(j)
    PROVE  RowsInv'
<1>1. PICK status \in JobStatuses \ {"absent"}, mcq \in BOOLEAN :
         jobs' = [jobs EXCEPT ![j] = [status |-> status, mcq |-> mcq]]
  BY DEF CreateJob, UpdateJob
<1>2. [status |-> status, mcq |-> mcq] \in JobRow
  BY DEF JobRow
<1>3. UNCHANGED << cand, sess, ans, queue, tab, hr, wk, employees >>
  BY DEF CreateJob, UpdateJob
<1>4. Typed'
  BY <1>1, <1>2, <1>3 DEF RowsInv, Typed
<1>5. Placed' /\ HiredOnce' /\ SameSessions
  BY <1>3 DEF RowsInv, Placed, HiredOnce, SameSessions
<1>. QED  BY <1>3, <1>4, <1>5, NothingMoves, RowsKept

\* A row takes a job that no other row of the person holds.
LEMMA ApplicationMoves ==
    ASSUME RowsInv, NEW c \in Candidates, NEW j \in Jobs, JobFree(j, c), NEW row \in CandidateRow,
           row.job = j, cand' = [cand EXCEPT ![c] = row]
    PROVE  OneRowPerJob' /\ cand' \in [Candidates -> CandidateRow]
<1>1. cand'[c] = row /\ \A d \in Candidates \ {c} : cand'[d] = cand[d]
  BY DEF RowsInv, Typed
<1>2. cand' \in [Candidates -> CandidateRow]
  BY DEF RowsInv, Typed
<1>3. OneRowPerJob'
  BY <1>1 DEF RowsInv, JobFree, OneRowPerJob, Exists
<1>. QED  BY <1>2, <1>3

LEMMA CreateStep ==
    ASSUME RowsInv, NEW c \in Candidates, NEW j \in Jobs, CreateCandidate(c, j)
    PROVE  RowsInv'
<1>1. /\ JobFree(j, c) /\ cand' = [cand EXCEPT ![c] = NewRow(j)]
      /\ UNCHANGED << jobs, sess, ans, queue, tab, hr, wk, employees >>
  BY DEF CreateCandidate
<1>2. NewRow(j) \in CandidateRow /\ NewRow(j).job = j /\ NewRow(j).status = "applied"
  BY NewRowTyped
<1>3. OneRowPerJob' /\ cand' \in [Candidates -> CandidateRow]
  BY <1>1, <1>2, ApplicationMoves
<1>4. Typed' /\ Placed' /\ HiredOnce'
  BY <1>1, <1>3 DEF RowsInv, Typed, Placed, HiredOnce
<1>5. Owned'
  BY <1>1, <1>2 DEF RowsInv, Typed, Owned, Present, Exists
<1>. QED  BY <1>3, <1>4, <1>5 DEF RowsInv

\* A session that is opened for a candidate that is there.
Opens(c, j, s, n) == sess' = [sess EXCEPT ![s] = Opened(c, j, n)]

LEMMA SessionOpens ==
    ASSUME RowsInv, NEW c \in Candidates, NEW j \in Jobs \cup {None}, NEW s \in Sessions,
           NEW n \in QuestionCounts \cup {0}, Opens(c, j, s, n)
    PROVE  /\ sess' \in [Sessions -> SessionRow]
           /\ sess'[s] = Opened(c, j, n) /\ sess'[s].cand = c /\ sess'[s].job = j
           /\ sess'[s].count = n /\ sess'[s].status = "invited"
           /\ \A x \in Sessions \ {s} : sess'[x] = sess[x]
<1>1. /\ Opened(c, j, n) \in SessionRow /\ Opened(c, j, n).cand = c
      /\ Opened(c, j, n).status = "invited" /\ Opened(c, j, n).count = n
      /\ Opened(c, j, n).job = j
  BY NewRowTyped
<1>2. sess \in [Sessions -> SessionRow]
  BY DEF RowsInv, Typed
<1>. QED  BY <1>1, <1>2 DEF Opens

LEMMA RegisteredTyped ==
    ASSUME RowsInv, NEW c \in Candidates, NEW j \in Jobs, NEW s \in Sessions,
           NEW n \in QuestionCounts, RegisteredSession(c, j, s, n)
    PROVE  /\ sess' \in [Sessions -> SessionRow]
           /\ sess'[s] = Opened(c, j, n) /\ sess'[s].cand = c /\ sess'[s].job = j
           /\ sess'[s].count = n /\ sess'[s].status = "invited"
           /\ \A x \in Sessions \ {s} :
                \/ sess'[x] = sess[x]
                \/ /\ sess[x].status \in {"invited", "in_progress"} /\ sess[x].cand = c
                   /\ sess'[x].status = "cancelled"
                   /\ sess'[x].cand = sess[x].cand /\ sess'[x].count = sess[x].count
                   /\ sess'[x].late = sess[x].late /\ sess'[x].job = sess[x].job
<1>1. /\ Opened(c, j, n) \in SessionRow /\ Opened(c, j, n).cand = c
      /\ Opened(c, j, n).count = n /\ Opened(c, j, n).status = "invited"
      /\ Opened(c, j, n).job = j
  BY NewRowTyped
<1>2. \A x \in Sessions : /\ [sess[x] EXCEPT !.status = "cancelled"] \in SessionRow
                          /\ [sess[x] EXCEPT !.status = "cancelled"].status = "cancelled"
                          /\ [sess[x] EXCEPT !.status = "cancelled"].cand = sess[x].cand
                          /\ [sess[x] EXCEPT !.status = "cancelled"].count = sess[x].count
                          /\ [sess[x] EXCEPT !.status = "cancelled"].late = sess[x].late
                          /\ [sess[x] EXCEPT !.status = "cancelled"].job = sess[x].job
  BY DEF RowsInv, Typed, SessionRow, SessionStatuses
<1>3. \A x \in Sessions : sess[x] \in SessionRow
  BY DEF RowsInv, Typed
<1>4. sess' = [x \in Sessions |->
                  IF x = s THEN Opened(c, j, n)
                  ELSE IF sess[x].cand = c /\ sess[x].status \in {"invited", "in_progress"}
                       THEN [sess[x] EXCEPT !.status = "cancelled"]
                       ELSE sess[x]]
  BY DEF RegisteredSession
<1>. HIDE DEF Opened, SessionRow
<1>. QED  BY <1>1, <1>2, <1>3, <1>4

LEMMA RegisterStep ==
    ASSUME RowsInv, NEW c \in Candidates, NEW j \in Jobs, NEW s \in Sessions, Register(c, j, s)
    PROVE  RowsInv'
<1>1. PICK n \in QuestionCounts : RegisteredSession(c, j, s, n)
  BY DEF Register
<1>2. PICK row \in CandidateRow :
         row.job = j /\ row.status = "applied" /\ cand' = [cand EXCEPT ![c] = row]
  <2>1. NewRow(j) \in CandidateRow /\ NewRow(j).job = j /\ NewRow(j).status = "applied"
    BY NewRowTyped
  <2>2. CASE RegisterNew(c, j)
    BY <2>1, <2>2 DEF RegisterNew
  <2>3. CASE RegisterAgain(c, j)
    <3>1. /\ [NewRow(j) EXCEPT !.employee = cand[c].employee] \in CandidateRow
          /\ [NewRow(j) EXCEPT !.employee = cand[c].employee].job = j
          /\ [NewRow(j) EXCEPT !.employee = cand[c].employee].status = "applied"
      BY <2>1 DEF RowsInv, Typed, CandidateRow
    <3>. QED  BY <2>3, <3>1 DEF RegisterAgain
  <2>. QED  BY <2>2, <2>3 DEF Register
<1>3. JobFree(j, c)
  BY DEF Register, RegisterNew, RegisterAgain
<1>4. OneRowPerJob' /\ cand' \in [Candidates -> CandidateRow]
  BY <1>2, <1>3, ApplicationMoves
<1>5. UNCHANGED << jobs, ans, queue, tab, hr, wk, employees >>
  BY DEF Register
<1>6. sess' \in [Sessions -> SessionRow]
  BY <1>1, RegisteredTyped
<1>7. Typed' /\ Placed' /\ HiredOnce'
  BY <1>4, <1>5, <1>6 DEF RowsInv, Typed, Placed, HiredOnce
<1>8. Owned'
  <2>1. cand'[c].status = "applied" /\ \A d \in Candidates \ {c} : cand'[d] = cand[d]
    BY <1>2 DEF RowsInv, Typed
  <2>2. ASSUME NEW x \in Sessions, There(sess'[x])
        PROVE  sess'[x].cand \in Candidates /\ There(cand'[sess'[x].cand]) /\ sess'[x].job \in Jobs
    <3>1. CASE x = s
      BY <1>1, <2>1, <3>1, RegisteredTyped DEF There
    <3>2. CASE x # s
      <4>1. sess'[x].cand = sess[x].cand /\ There(sess[x]) /\ sess'[x].job = sess[x].job
        BY <1>1, <2>2, <3>2, RegisteredTyped DEF There
      <4>. QED  BY <2>1, <4>1 DEF RowsInv, Owned, Present, Exists, There
    <3>. QED  BY <3>1, <3>2
  <2>3. \A d \in Candidates : There(cand'[d]) => cand'[d].job \in Jobs
    BY <1>2 DEF RowsInv, Typed, Owned, Exists, There
  <2>. QED  BY <2>2, <2>3 DEF Owned, Present, Exists, There
<1>. QED  BY <1>4, <1>7, <1>8 DEF RowsInv

\* A transition of a candidate that is there, to a status that is there.
LEMMA TransitionKeeps ==
    ASSUME RowsInv, NEW c \in Candidates, NEW to \in CandidateStatuses \ {"absent", "deleted"},
           Transition(c, to)
    PROVE  cand' \in [Candidates -> CandidateRow] /\ SameApplications
<1> DEFINE row == [cand[c] EXCEPT !.status = to,
                                  !.old = IF to = "archived" THEN FALSE ELSE @,
                                  !.done = IF to = "accepted" /\ @ = "no" THEN "cooling" ELSE @]
<1>1. cand' = [cand EXCEPT ![c] = row] /\ Exists(c)
  BY DEF Transition
<1>2. cand[c] \in CandidateRow
  BY DEF RowsInv, Typed
<1>3. row \in CandidateRow /\ row.status = to /\ row.job = cand[c].job
  BY <1>2 DEF CandidateRow
<1>. HIDE DEF row
<1>4. cand' \in [Candidates -> CandidateRow] /\ cand'[c] = row
      /\ \A d \in Candidates \ {c} : cand'[d] = cand[d]
  BY <1>1, <1>3 DEF RowsInv, Typed
<1>. QED  BY <1>1, <1>3, <1>4 DEF SameApplications, There, Exists

LEMMA DecideStep ==
    ASSUME RowsInv, NEW c \in Candidates,
           NEW to \in {"rejected", "archived", "shortlisted", "accepted"}, Decide(c, to)
    PROVE  RowsInv'
<1>1. to \in CandidateStatuses \ {"absent", "deleted"}
  BY DEF CandidateStatuses
<1>2. Transition(c, to) /\ UNCHANGED << jobs, sess, ans, queue, tab, hr, wk, employees >>
  BY DEF Decide
<1>. QED  BY <1>1, <1>2, TransitionKeeps, CandidatesAlone

LEMMA RestoreStep ==
    ASSUME RowsInv, NEW c \in Candidates, Restore(c)
    PROVE  RowsInv'
<1> DEFINE row == [cand[c] EXCEPT !.status = "applied", !.old = FALSE]
<1>1. cand' = [cand EXCEPT ![c] = row] /\ cand[c].status = "archived"
  BY DEF Restore
<1>2. cand[c] \in CandidateRow
  BY DEF RowsInv, Typed
<1>3. row \in CandidateRow /\ row.status = "applied" /\ row.job = cand[c].job
  BY <1>2 DEF CandidateRow, CandidateStatuses
<1>. HIDE DEF row
<1>4. cand' \in [Candidates -> CandidateRow] /\ SameApplications
  BY <1>1, <1>3 DEF RowsInv, Typed, SameApplications, There
<1>. QED  BY <1>4, CandidatesAlone DEF Restore

LEMMA BulkArchiveStep ==
    ASSUME RowsInv, NEW C \in SUBSET Candidates, BulkArchive(C)
    PROVE  RowsInv'
<1>1. \A c \in Candidates :
         /\ [cand[c] EXCEPT !.status = "archived", !.old = FALSE] \in CandidateRow
         /\ [cand[c] EXCEPT !.status = "archived", !.old = FALSE].status = "archived"
         /\ [cand[c] EXCEPT !.status = "archived", !.old = FALSE].job = cand[c].job
  BY DEF RowsInv, Typed, CandidateRow, CandidateStatuses
<1>2. cand' = [c \in Candidates |->
                  IF c \in C /\ Exists(c) /\ cand[c].status # "archived"
                  THEN [cand[c] EXCEPT !.status = "archived", !.old = FALSE]
                  ELSE cand[c]]
  BY DEF BulkArchive
<1>3. cand' \in [Candidates -> CandidateRow]
  <2>1. \A c \in Candidates : cand[c] \in CandidateRow
    BY DEF RowsInv, Typed
  <2>. QED  BY <1>1, <1>2, <2>1
<1>4. SameApplications
  BY <1>1, <1>2 DEF SameApplications, There, Exists
<1>. QED  BY <1>3, <1>4, CandidatesAlone DEF BulkArchive

\* A session is opened for a candidate that stays there.
LEMMA InvitedRows ==
    ASSUME RowsInv, NEW c \in Candidates, NEW s \in Sessions, NEW n \in QuestionCounts \cup {0},
           Exists(c), Opens(c, cand[c].job, s, n),
           SameApplications, cand' \in [Candidates -> CandidateRow],
           UNCHANGED << jobs, ans, queue, tab, hr, wk, employees >>
    PROVE  RowsInv'
<1>1. PICK j \in Jobs : j = cand[c].job
  BY DEF RowsInv, Owned
<1>2. /\ sess' \in [Sessions -> SessionRow] /\ sess'[s].cand = c
      /\ sess'[s].job = j
      /\ \A x \in Sessions \ {s} : sess'[x] = sess[x]
  <2>1. Opens(c, j, s, n)
    BY <1>1
  <2>. QED  BY <2>1, SessionOpens
<1>3. Typed' /\ Placed' /\ HiredOnce'
  BY <1>2 DEF RowsInv, Typed, Placed, HiredOnce
<1>4. Owned'
  BY <1>2 DEF RowsInv, Owned, Present, Exists, SameApplications, There
<1>. QED  BY <1>3, <1>4, SameApplicationsKeep DEF RowsInv

LEMMA InviteStep ==
    ASSUME RowsInv, NEW c \in Candidates, NEW s \in Sessions,
           Invite(c, s) \/ Notify(c, s) \/ BulkNotify(c, s)
    PROVE  RowsInv'
<1>1. "interviewing" \in CandidateStatuses \ {"absent", "deleted"}
  BY DEF CandidateStatuses
<1>2. cand' \in [Candidates -> CandidateRow] /\ SameApplications
  <2>1. CASE Transition(c, "interviewing")
    BY <1>1, <2>1, TransitionKeeps
  <2>2. CASE UNCHANGED cand
    BY <2>2, NothingMoves DEF RowsInv, Typed
  <2>3. CASE Exists(c) /\ SetStatus(c, "interviewing")
    BY <1>1, <2>3, StatusKeeps DEF RowsInv, Exists, There
  <2>. QED  BY <2>1, <2>2, <2>3 DEF Invite, Notify, BulkNotify
<1>3. PICK n \in QuestionCounts : Opens(c, cand[c].job, s, n)
  BY DEF Invite, Notify, BulkNotify, Opens
<1>4. Exists(c) /\ UNCHANGED << jobs, ans, queue, tab, hr, wk, employees >>
  BY DEF Invite, Notify, BulkNotify
<1>. QED  BY <1>2, <1>3, <1>4, InvitedRows

LEMMA ConvertStep ==
    ASSUME RowsInv, NEW h \in Staff,
           \/ \E c \in Candidates, k \in Codes : ConvertBegin(h, c, k)
           \/ ConvertFails(h)
    PROVE  RowsInv'
<1>1. UNCHANGED << jobs, cand, sess, ans, queue, tab, wk, employees >>
  BY DEF ConvertBegin, ConvertFails, rows
<1>2. PICK row \in StaffRows :
         /\ hr' = [hr EXCEPT ![h] = row]
         /\ row.pc = "hashing" => row.cand \in Candidates /\ row.code \in Codes
  <2>1. ASSUME NEW c \in Candidates, NEW k \in Codes, ConvertBegin(h, c, k)
        PROVE  \E row \in StaffRows :
                 /\ hr' = [hr EXCEPT ![h] = row]
                 /\ row.pc = "hashing" => row.cand \in Candidates /\ row.code \in Codes
    <3>1. [pc |-> "hashing", cand |-> c, code |-> k] \in StaffRows
      BY DEF StaffRows
    <3>. QED  BY <2>1, <3>1 DEF ConvertBegin
  <2>2. ASSUME ConvertFails(h)
        PROVE  \E row \in StaffRows :
                 /\ hr' = [hr EXCEPT ![h] = row]
                 /\ row.pc = "hashing" => row.cand \in Candidates /\ row.code \in Codes
    BY <2>2, EmptyRows DEF ConvertFails, IdleStaff
  <2>. QED  BY <2>1, <2>2
<1>3. Typed' /\ Placed' /\ HiredOnce'
  BY <1>1, <1>2 DEF RowsInv, Typed, Placed, HiredOnce
<1>. QED  BY <1>1, <1>3, NothingMoves, RowsKept DEF SameSessions

\* The commit that hires checks the national ID against every employee.
LEMMA HireStep ==
    ASSUME RowsInv, NEW h \in Staff, ConvertCommit(h)
    PROVE  RowsInv'
<1> DEFINE c == hr[h].cand code == hr[h].code
           row == [cand[c] EXCEPT !.employee = code]
<1>1. /\ c \in Candidates /\ code \in Codes /\ NationalIdFree
      /\ employees' = [employees EXCEPT ![code] = c]
      /\ cand' = [cand EXCEPT ![c] = row]
      /\ hr' = [hr EXCEPT ![h] = IdleStaff]
      /\ UNCHANGED << jobs, sess, ans, queue, tab, wk >>
  BY DEF RowsInv, Placed, ConvertCommit
<1>. HIDE DEF c, code
<1>2. row \in CandidateRow /\ row.status = cand[c].status /\ row.job = cand[c].job
  BY <1>1 DEF RowsInv, Typed, CandidateRow
<1>. HIDE DEF row
<1>3. cand' \in [Candidates -> CandidateRow] /\ SameApplications
  BY <1>1, <1>2 DEF RowsInv, Typed, SameApplications, There
<1>4. Typed' /\ Placed'
  BY <1>1, <1>3, EmptyRows DEF RowsInv, Typed, Placed, IdleStaff
<1>5. HiredOnce'
  BY <1>1 DEF RowsInv, Typed, HiredOnce, NationalIdFree
<1>. QED  BY <1>1, <1>3, <1>4, <1>5, RowsKept DEF SameSessions

\* What is deleted goes with its sessions.
LEMMA PurgeStep ==
    ASSUME RowsInv, Purge
    PROVE  RowsInv'
<1> DEFINE gone == {c \in Candidates : cand[c].status = "archived" /\ cand[c].old}
<1>1. /\ cand' = [c \in Candidates |->
                     IF c \in gone THEN [NoCandidate EXCEPT !.status = "deleted"] ELSE cand[c]]
      /\ sess' = [s \in Sessions |->
                     IF sess[s].cand \in gone THEN [NoSession EXCEPT !.status = "deleted"]
                     ELSE sess[s]]
      /\ ans' = [s \in Sessions |->
                     IF sess[s].cand \in gone THEN [q \in Questions |-> NoAnswer] ELSE ans[s]]
      /\ UNCHANGED << jobs, queue, tab, hr, wk, employees >>
  BY DEF Purge
<1>. HIDE DEF gone
<1>2. /\ [NoCandidate EXCEPT !.status = "deleted"] \in CandidateRow
      /\ [NoCandidate EXCEPT !.status = "deleted"].status = "deleted"
      /\ [NoSession EXCEPT !.status = "deleted"] \in SessionRow
      /\ [NoSession EXCEPT !.status = "deleted"].status = "deleted"
  BY DEF NoCandidate, NoSession, CandidateRow, CandidateStatuses, SessionRow, SessionStatuses
<1>3. cand' \in [Candidates -> CandidateRow] /\ sess' \in [Sessions -> SessionRow]
  BY <1>1, <1>2 DEF RowsInv, Typed
<1>4. ans' \in [Sessions -> [Questions -> AnswerRows]]
  BY <1>1, EmptyRows DEF RowsInv, Typed
<1>5. Typed' /\ Placed' /\ HiredOnce'
  BY <1>1, <1>3, <1>4 DEF RowsInv, Typed, Placed, HiredOnce
<1>6. OneRowPerJob'
  BY <1>1, <1>2 DEF RowsInv, OneRowPerJob, Exists
<1>7. Owned'
  BY <1>1, <1>2 DEF RowsInv, Owned, Exists, Present
<1>. QED  BY <1>5, <1>6, <1>7 DEF RowsInv

LEMMA TimeStep ==
    ASSUME RowsInv, NEW c \in Candidates, TimePasses(c)
    PROVE  RowsInv'
<1>1. cand[c] \in CandidateRow
  BY DEF RowsInv, Typed
<1>2. PICK row \in CandidateRow :
         row.status = cand[c].status /\ row.job = cand[c].job /\ cand' = [cand EXCEPT ![c] = row]
  <2>1. /\ [cand[c] EXCEPT !.recent = FALSE] \in CandidateRow
        /\ [cand[c] EXCEPT !.recent = FALSE].status = cand[c].status
        /\ [cand[c] EXCEPT !.recent = FALSE].job = cand[c].job
    BY <1>1 DEF CandidateRow
  <2>2. /\ [cand[c] EXCEPT !.done = "past"] \in CandidateRow
        /\ [cand[c] EXCEPT !.done = "past"].status = cand[c].status
        /\ [cand[c] EXCEPT !.done = "past"].job = cand[c].job
    BY <1>1 DEF CandidateRow
  <2>3. /\ [cand[c] EXCEPT !.old = TRUE] \in CandidateRow
        /\ [cand[c] EXCEPT !.old = TRUE].status = cand[c].status
        /\ [cand[c] EXCEPT !.old = TRUE].job = cand[c].job
    BY <1>1 DEF CandidateRow
  <2>. QED  BY <2>1, <2>2, <2>3 DEF TimePasses
<1>3. cand' \in [Candidates -> CandidateRow] /\ SameApplications
  BY <1>2 DEF RowsInv, Typed, SameApplications, There
<1>. QED  BY <1>3, CandidatesAlone DEF TimePasses

(* What a step does to one session's row. *)

\* The session of an admitted request stays there, and so do the others.
LEMMA SessionSet ==
    ASSUME Typed, NEW s \in Sessions, NEW row \in SessionRow, sess' = [sess EXCEPT ![s] = row],
           row.cand = sess[s].cand, row.job = sess[s].job, There(row) => There(sess[s])
    PROVE  /\ sess' \in [Sessions -> SessionRow] /\ SameSessions
           /\ sess'[s] = row /\ \A x \in Sessions \ {s} : sess'[x] = sess[x]
BY DEF Typed, SameSessions

LEMMA SessionRows ==
    ASSUME Typed, NEW s \in Sessions, NEW status \in SessionStatuses
    PROVE  /\ [sess[s] EXCEPT !.late = TRUE] \in SessionRow
           /\ [sess[s] EXCEPT !.late = TRUE].cand = sess[s].cand
           /\ [sess[s] EXCEPT !.late = TRUE].count = sess[s].count
           /\ [sess[s] EXCEPT !.late = TRUE].job = sess[s].job
           /\ [sess[s] EXCEPT !.late = TRUE].status = sess[s].status
           /\ [sess[s] EXCEPT !.late = TRUE].mcq = sess[s].mcq
           /\ [sess[s] EXCEPT !.status = status] \in SessionRow
           /\ [sess[s] EXCEPT !.status = status].cand = sess[s].cand
           /\ [sess[s] EXCEPT !.status = status].count = sess[s].count
           /\ [sess[s] EXCEPT !.status = status].job = sess[s].job
           /\ [sess[s] EXCEPT !.status = status].late = sess[s].late
           /\ [sess[s] EXCEPT !.status = status].status = status
           /\ [sess[s] EXCEPT !.mcq = TRUE, !.status = status] \in SessionRow
           /\ [sess[s] EXCEPT !.mcq = TRUE, !.status = status].cand = sess[s].cand
           /\ [sess[s] EXCEPT !.mcq = TRUE, !.status = status].count = sess[s].count
           /\ [sess[s] EXCEPT !.mcq = TRUE, !.status = status].job = sess[s].job
           /\ [sess[s] EXCEPT !.mcq = TRUE, !.status = status].late = sess[s].late
           /\ [sess[s] EXCEPT !.mcq = TRUE, !.status = status].status = status
BY DEF Typed, SessionRow

LEMMA SessionExpiresSet ==
    ASSUME Typed, NEW s \in Sessions, SessionExpires(s)
    PROVE  /\ sess' \in [Sessions -> SessionRow] /\ SameSessions
           /\ sess'[s].cand = sess[s].cand /\ sess'[s].count = sess[s].count
           /\ sess'[s].status = sess[s].status
           /\ \A x \in Sessions \ {s} : sess'[x] = sess[x]
<1>1. sess' = [sess EXCEPT ![s] = [sess[s] EXCEPT !.late = TRUE]] /\ Present(s)
  BY DEF SessionExpires
<1>. QED  BY <1>1, SessionRows, SessionSet DEF Present, There, SessionStatuses

\* The session's status as the request writes it.
LEMMA StatusWritten ==
    ASSUME Typed, NEW s \in Sessions, Present(s), NEW status \in SessionStatuses,
           sess' = [sess EXCEPT ![s].status = status]
    PROVE  /\ sess' \in [Sessions -> SessionRow] /\ SameSessions
           /\ sess'[s].cand = sess[s].cand /\ sess'[s].count = sess[s].count
           /\ sess'[s].status = status /\ sess'[s].late = sess[s].late
           /\ \A x \in Sessions \ {s} : sess'[x] = sess[x]
<1> DEFINE row == [sess[s] EXCEPT !.status = status]
<1>1. sess' = [sess EXCEPT ![s] = row]
  OBVIOUS
<1>2. /\ row \in SessionRow /\ row.cand = sess[s].cand /\ row.count = sess[s].count
      /\ row.late = sess[s].late /\ row.status = status /\ row.job = sess[s].job
  BY SessionRows
<1>. HIDE DEF row
<1>3. There(sess[s])
  BY DEF Present, There
<1>. QED  BY <1>1, <1>2, <1>3, SessionSet

LEMMA BegunSet ==
    ASSUME Typed, NEW s \in Sessions, Present(s), NEW seen, Begun(s, seen)
    PROVE  /\ sess' \in [Sessions -> SessionRow] /\ SameSessions
           /\ sess'[s].cand = sess[s].cand /\ sess'[s].count = sess[s].count
           /\ sess'[s].late = sess[s].late
           /\ sess'[s].status = IF seen = "invited" THEN "in_progress" ELSE sess[s].status
           /\ \A x \in Sessions \ {s} : sess'[x] = sess[x]
<1>1. (IF seen = "invited" THEN "in_progress" ELSE sess[s].status) \in SessionStatuses
  BY DEF Typed, SessionRow, SessionStatuses
<1>2. sess' = [sess EXCEPT ![s].status =
                  IF seen = "invited" THEN "in_progress" ELSE sess[s].status]
  BY DEF Begun
<1>. QED  BY <1>1, <1>2, StatusWritten

LEMMA McqSet ==
    ASSUME Typed, NEW s \in Sessions, SubmitMcq(s)
    PROVE  /\ sess' \in [Sessions -> SessionRow] /\ SameSessions
           /\ sess'[s].cand = sess[s].cand /\ sess'[s].count = sess[s].count
           /\ sess'[s].late = sess[s].late
           /\ sess'[s].status = IF sess[s].status = "invited" THEN "in_progress" ELSE sess[s].status
           /\ \A x \in Sessions \ {s} : sess'[x] = sess[x]
<1> DEFINE status == IF sess[s].status = "invited" THEN "in_progress" ELSE sess[s].status
           row == [sess[s] EXCEPT !.mcq = TRUE, !.status = status]
<1>1. status \in SessionStatuses
  BY DEF Typed, SessionRow, SessionStatuses
<1>2. sess' = [sess EXCEPT ![s] = row] /\ Present(s)
  <2>1. sess' = [sess EXCEPT ![s].mcq = TRUE,
                             ![s].status = IF @ = "invited" THEN "in_progress" ELSE @]
    BY DEF SubmitMcq
  <2>2. sess' = [sess EXCEPT ![s] = [sess[s] EXCEPT !.mcq = TRUE, !.status =
                     IF [sess[s] EXCEPT !.mcq = TRUE].status = "invited" THEN "in_progress"
                     ELSE [sess[s] EXCEPT !.mcq = TRUE].status]]
    BY <2>1 DEF Typed
  <2>3. [sess[s] EXCEPT !.mcq = TRUE].status = sess[s].status
    BY DEF Typed, SessionRow
  <2>4. Present(s)
    BY DEF SubmitMcq, Admitted
  <2>. QED  BY <2>2, <2>3, <2>4
<1>3. /\ row \in SessionRow /\ row.cand = sess[s].cand /\ row.count = sess[s].count
      /\ row.late = sess[s].late /\ row.status = status /\ row.job = sess[s].job
  BY <1>1, SessionRows
<1>4. There(sess[s])
  BY <1>2 DEF Present, There
<1>. HIDE DEF row
<1>. QED  BY <1>2, <1>3, <1>4, SessionSet

(* The rows of an answer, a request and a task. *)

LEMMA TabSet ==
    ASSUME Typed, NEW t \in Tabs, NEW row \in TabRows, tab' = [tab EXCEPT ![t] = row]
    PROVE  /\ tab' \in [Tabs -> TabRows] /\ tab'[t] = row
           /\ \A u \in Tabs \ {t} : tab'[u] = tab[u]
BY DEF Typed

LEMMA WorkerSet ==
    ASSUME Typed, NEW w \in Workers, NEW row \in WorkerRows, wk' = [wk EXCEPT ![w] = row]
    PROVE  /\ wk' \in [Workers -> WorkerRows] /\ wk'[w] = row
           /\ \A v \in Workers \ {w} : wk'[v] = wk[v]
BY DEF Typed

LEMMA AnswerIn ==
    ASSUME Typed, NEW s \in Sessions, NEW q \in Questions, NEW status \in AnswerStatuses
    PROVE  /\ ans[s][q] \in AnswerRows
           /\ [ans[s][q] EXCEPT !.status = status] \in AnswerRows
           /\ [ans[s][q] EXCEPT !.status = status].status = status
           /\ [ans[s][q] EXCEPT !.status = status].text = ans[s][q].text
           /\ [ans[s][q] EXCEPT !.status = status].graded = ans[s][q].graded
           /\ [ans[s][q] EXCEPT !.overdue = TRUE] \in AnswerRows
           /\ [ans[s][q] EXCEPT !.overdue = TRUE].status = ans[s][q].status
           /\ [ans[s][q] EXCEPT !.overdue = TRUE].text = ans[s][q].text
           /\ [ans[s][q] EXCEPT !.overdue = TRUE].graded = ans[s][q].graded
<1>1. ans[s][q] \in AnswerRows
  BY DEF Typed
<1>. QED  BY <1>1 DEF AnswerRows

\* A status is written to an answer.
LEMMA AnswerStatusSet ==
    ASSUME Typed, NEW s \in Sessions, NEW q \in Questions, NEW status \in AnswerStatuses,
           ans' = [ans EXCEPT ![s][q].status = status]
    PROVE  /\ ans' \in [Sessions -> [Questions -> AnswerRows]]
           /\ ans'[s][q].status = status /\ ans'[s][q].text = ans[s][q].text
           /\ ans'[s][q].graded = ans[s][q].graded
           /\ \A x \in Sessions, p \in Questions : x # s \/ p # q => ans'[x][p] = ans[x][p]
<1> DEFINE row == [ans[s][q] EXCEPT !.status = status]
<1>1. ans' = [ans EXCEPT ![s][q] = row]
  BY DEF Typed
<1>2. /\ row \in AnswerRows /\ row.status = status /\ row.text = ans[s][q].text
      /\ row.graded = ans[s][q].graded
  BY AnswerIn
<1>. HIDE DEF row
<1>9. ans \in [Sessions -> [Questions -> AnswerRows]]
  BY DEF Typed
<1>. QED  BY <1>1, <1>2, <1>9

LEMMA OverdueSet ==
    ASSUME Typed, NEW s \in Sessions, NEW q \in Questions, TimeLimitPasses(s, q)
    PROVE  /\ ans' \in [Sessions -> [Questions -> AnswerRows]]
           /\ ans'[s][q].status = ans[s][q].status /\ ans'[s][q].text = ans[s][q].text
           /\ ans'[s][q].graded = ans[s][q].graded
           /\ \A x \in Sessions, p \in Questions : x # s \/ p # q => ans'[x][p] = ans[x][p]
<1> DEFINE row == [ans[s][q] EXCEPT !.overdue = TRUE]
<1>1. ans' = [ans EXCEPT ![s][q] = row]
  BY DEF Typed, TimeLimitPasses
<1>2. /\ row \in AnswerRows /\ row.status = ans[s][q].status /\ row.text = ans[s][q].text
      /\ row.graded = ans[s][q].graded
  <2>1. ans[s][q].status \in AnswerStatuses
    BY AnswerIn DEF Typed, AnswerRows
  <2>. QED  BY <2>1, AnswerIn
<1>. HIDE DEF row
<1>9. ans \in [Sessions -> [Questions -> AnswerRows]]
  BY DEF Typed
<1>. QED  BY <1>1, <1>2, <1>9

LEMMA GradedSet ==
    ASSUME Typed, NEW s \in Sessions, NEW q \in Questions, NEW n \in Nat,
           ans' = [ans EXCEPT ![s][q].status = "evaluated", ![s][q].graded = n]
    PROVE  /\ ans' \in [Sessions -> [Questions -> AnswerRows]]
           /\ ans'[s][q].status = "evaluated" /\ ans'[s][q].text = ans[s][q].text
           /\ ans'[s][q].graded = n
           /\ \A x \in Sessions, p \in Questions : x # s \/ p # q => ans'[x][p] = ans[x][p]
<1> DEFINE row == [ans[s][q] EXCEPT !.status = "evaluated", !.graded = n]
<1>1. ans' = [ans EXCEPT ![s][q] = row]
  BY DEF Typed
<1>2. ans[s][q] \in AnswerRows
  BY DEF Typed
<1>3. /\ row \in AnswerRows /\ row.status = "evaluated" /\ row.text = ans[s][q].text
      /\ row.graded = n
  BY <1>2 DEF AnswerRows, AnswerStatuses
<1>. HIDE DEF row
<1>9. ans \in [Sessions -> [Questions -> AnswerRows]]
  BY DEF Typed
<1>. QED  BY <1>1, <1>3, <1>9

\* The commit of a submission: graded with it or left to a worker.
LEMMA SubmittedSet ==
    ASSUME Typed, NEW t \in Tabs, tab[t].s \in Sessions, tab[t].q \in Questions, SubmitCommit(t)
    PROVE  /\ ans' \in [Sessions -> [Questions -> AnswerRows]]
           /\ \A x \in Sessions, p \in Questions :
                x # tab[t].s \/ p # tab[t].q => ans'[x][p] = ans[x][p]
           /\ ans'[tab[t].s][tab[t].q].text = ans[tab[t].s][tab[t].q].text + 1
           /\ \/ /\ ans'[tab[t].s][tab[t].q].status = "evaluated"
                 /\ ans'[tab[t].s][tab[t].q].graded = ans[tab[t].s][tab[t].q].text + 1
                 /\ tab' = [tab EXCEPT ![t] = IdleTab]
              \/ /\ ans'[tab[t].s][tab[t].q].status =
                       IF tab[t].row THEN ans[tab[t].s][tab[t].q].status ELSE "pending"
                 /\ ans'[tab[t].s][tab[t].q].graded = ans[tab[t].s][tab[t].q].graded
                 /\ tab' = [tab EXCEPT ![t].pc = "publishing"]
<1> DEFINE s == tab[t].s q == tab[t].q old == ans[s][q]
           late == [old EXCEPT !.text = old.text + 1, !.graded = old.text + 1,
                               !.status = "evaluated"]
           kept == [old EXCEPT !.text = old.text + 1,
                               !.status = IF tab[t].row THEN old.status ELSE "pending"]
<1>1. s \in Sessions /\ q \in Questions /\ ans \in [Sessions -> [Questions -> AnswerRows]]
  BY DEF Typed
<1>2. old \in AnswerRows
  BY <1>1
<1>3. /\ late \in AnswerRows /\ late.status = "evaluated" /\ late.text = old.text + 1
      /\ late.graded = old.text + 1
      /\ kept \in AnswerRows /\ kept.text = old.text + 1 /\ kept.graded = old.graded
      /\ kept.status = IF tab[t].row THEN old.status ELSE "pending"
  <2>1. old.text \in Nat /\ old.text + 1 \in Nat /\ old.status \in AnswerStatuses
    BY <1>2 DEF AnswerRows
  <2>2. "evaluated" \in AnswerStatuses /\ "pending" \in AnswerStatuses
    BY DEF AnswerStatuses
  <2>3. /\ late \in AnswerRows /\ late.status = "evaluated" /\ late.text = old.text + 1
        /\ late.graded = old.text + 1
    BY <1>2, <2>1, <2>2 DEF AnswerRows
  <2>4. (IF tab[t].row THEN old.status ELSE "pending") \in AnswerStatuses
    BY <2>1, <2>2
  <2>5. /\ kept \in AnswerRows /\ kept.text = old.text + 1 /\ kept.graded = old.graded
        /\ kept.status = IF tab[t].row THEN old.status ELSE "pending"
    BY <1>2, <2>1, <2>4 DEF AnswerRows
  <2>. QED  BY <2>3, <2>5
<1>4. \/ /\ ans' = [ans EXCEPT ![s][q] = late] /\ tab' = [tab EXCEPT ![t] = IdleTab]
      \/ /\ ans' = [ans EXCEPT ![s][q] = kept] /\ tab' = [tab EXCEPT ![t].pc = "publishing"]
  <2>1. CASE old.overdue
    <3>1. ans' = [ans EXCEPT ![s][q].text = @ + 1, ![s][q].graded = old.text + 1,
                             ![s][q].status = "evaluated"]
      BY <2>1 DEF SubmitCommit
    <3>2. ans' = [ans EXCEPT ![s][q] = late]
      BY <1>1, <3>1
    <3>. QED  BY <2>1, <3>2 DEF SubmitCommit
  <2>2. CASE ~ old.overdue
    <3>1. ans' = [ans EXCEPT ![s][q].text = @ + 1,
                             ![s][q].status = IF tab[t].row THEN @ ELSE "pending"]
      BY <2>2 DEF SubmitCommit
    <3>2. ans' = [ans EXCEPT ![s][q] = kept]
      BY <1>1, <1>2, <3>1 DEF AnswerRows
    <3>. QED  BY <2>2, <3>2 DEF SubmitCommit
  <2>. QED  BY <2>1, <2>2
<1>. HIDE DEF late, kept
<1>5. CASE ans' = [ans EXCEPT ![s][q] = late] /\ tab' = [tab EXCEPT ![t] = IdleTab]
  <2>1. /\ ans' \in [Sessions -> [Questions -> AnswerRows]] /\ ans'[s][q] = late
        /\ \A x \in Sessions, p \in Questions : x # s \/ p # q => ans'[x][p] = ans[x][p]
    BY <1>1, <1>3, <1>5
  <2>. QED  BY <1>3, <1>5, <2>1
<1>6. CASE ans' = [ans EXCEPT ![s][q] = kept] /\ tab' = [tab EXCEPT ![t].pc = "publishing"]
  <2>1. /\ ans' \in [Sessions -> [Questions -> AnswerRows]] /\ ans'[s][q] = kept
        /\ \A x \in Sessions, p \in Questions : x # s \/ p # q => ans'[x][p] = ans[x][p]
    BY <1>1, <1>3, <1>6
  <2>. QED  BY <1>3, <1>6, <2>1
<1>. QED  BY <1>4, <1>5, <1>6

(* The portal and the workers leave the applications as they are. *)

LEMMA PortalRows ==
    ASSUME RowsInv, SameApplications, SameSessions,
           cand' \in [Candidates -> CandidateRow], sess' \in [Sessions -> SessionRow],
           ans' \in [Sessions -> [Questions -> AnswerRows]],
           UNCHANGED << jobs, queue, tab, hr, wk, employees >>
    PROVE  RowsInv'
<1>1. Typed' /\ Placed' /\ HiredOnce'
  BY DEF RowsInv, Typed, Placed, HiredOnce
<1>. QED  BY <1>1, RowsKept

LEMMA OwnerThere ==
    ASSUME RowsInv, NEW s \in Sessions, Present(s)
    PROVE  sess[s].cand \in Candidates /\ There(cand[sess[s].cand]) /\ sess[s].job \in Jobs
BY DEF RowsInv, Owned, Exists, There

\* The candidate's status as a request or a task of one of its sessions leaves it.
LEMMA StatusOfOwner ==
    ASSUME RowsInv, NEW s \in Sessions, Present(s), NEW status,
           status \in {cand[sess[s].cand].status, "evaluated"}, SetStatus(sess[s].cand, status)
    PROVE  cand' \in [Candidates -> CandidateRow] /\ SameApplications
<1>1. sess[s].cand \in Candidates /\ There(cand[sess[s].cand])
  BY OwnerThere
<1>2. status \in CandidateStatuses \ {"absent", "deleted"}
  BY <1>1 DEF RowsInv, Typed, CandidateRow, There, CandidateStatuses
<1>. QED  BY <1>1, <1>2, StatusKeeps DEF RowsInv

LEMMA PortalStep ==
    ASSUME RowsInv, NEW s \in Sessions,
           SessionExpires(s) \/ ExpiredVisit(s) \/ SubmitMcq(s) \/ Complete(s)
    PROVE  RowsInv'
<1>0. Typed
  BY DEF RowsInv
<1>1. CASE SessionExpires(s)
  BY <1>0, <1>1, SessionExpiresSet, PortalRows, NothingMoves DEF SessionExpires, Typed
<1>2. CASE ExpiredVisit(s)
  <2>1. Present(s) /\ sess' = [sess EXCEPT ![s].status = "expired"]
    BY <1>2 DEF ExpiredVisit
  <2>2. sess' \in [Sessions -> SessionRow] /\ SameSessions
    BY <1>0, <2>1, StatusWritten DEF SessionStatuses
  <2>3. PICK status \in {cand[sess[s].cand].status, "evaluated"} : SetStatus(sess[s].cand, status)
    <3>1. cand' = [cand EXCEPT ![sess[s].cand].status =
                      IF cand[sess[s].cand].status = "interviewing" THEN "evaluated"
                      ELSE cand[sess[s].cand].status]
      BY <1>2 DEF ExpiredVisit
    <3>. QED  BY <3>1 DEF SetStatus
  <2>. QED  BY <1>2, <2>1, <2>2, <2>3, StatusOfOwner, PortalRows DEF ExpiredVisit, RowsInv, Typed
<1>3. CASE SubmitMcq(s)
  <2>1. Present(s)
    BY <1>3 DEF SubmitMcq, Admitted
  <2>2. sess' \in [Sessions -> SessionRow] /\ SameSessions
    BY <1>0, <1>3, McqSet
  <2>3. PICK status \in {cand[sess[s].cand].status, "evaluated"} : SetStatus(sess[s].cand, status)
    <3>1. SetStatus(sess[s].cand,
                    Synced(sess[s].cand, cand[sess[s].cand], sess', ans, jobs, sess'))
      BY <1>3 DEF SubmitMcq
    <3>. QED  BY <3>1, SyncedStatus
  <2>. QED  BY <1>3, <2>1, <2>2, <2>3, StatusOfOwner, PortalRows DEF SubmitMcq, RowsInv, Typed
<1>4. CASE Complete(s)
  <2>1. Present(s) /\ sess' = [sess EXCEPT ![s].status = "completed"]
    BY <1>4 DEF Complete, Admitted
  <2>2. sess' \in [Sessions -> SessionRow] /\ SameSessions
    BY <1>0, <2>1, StatusWritten DEF SessionStatuses
  <2>3. cand' \in [Candidates -> CandidateRow] /\ SameApplications
    <3> DEFINE c == sess[s].cand  row == [cand[c] EXCEPT !.done = "cooling"]
    <3>1. c \in Candidates /\ There(cand[c])
      BY <2>1, OwnerThere
    <3>2. cand[c] \in CandidateRow
      BY <3>1 DEF RowsInv, Typed
    <3>3. row \in CandidateRow /\ row.status = cand[c].status /\ row.job = cand[c].job
      BY <3>2 DEF CandidateRow
    <3>4. cand' = [cand EXCEPT ![c] = row]
      BY <1>4 DEF Complete
    <3>. HIDE DEF c, row
    <3>. QED  BY <3>1, <3>3, <3>4 DEF RowsInv, Typed, SameApplications, There
  <2>. QED  BY <1>4, <2>2, <2>3, PortalRows DEF Complete, RowsInv, Typed
<1>. QED  BY <1>1, <1>2, <1>3, <1>4

LEMMA AnswerStep ==
    ASSUME RowsInv, NEW s \in Sessions, NEW q \in Questions,
           TimeLimitPasses(s, q) \/ StartQuestion(s, q)
    PROVE  RowsInv'
<1>0. Typed
  BY DEF RowsInv
<1>1. CASE TimeLimitPasses(s, q)
  <2>1. ans' \in [Sessions -> [Questions -> AnswerRows]]
    BY <1>0, <1>1, OverdueSet
  <2>2. UNCHANGED << jobs, cand, sess, queue, tab, hr, wk, employees >>
    BY <1>1 DEF TimeLimitPasses
  <2>3. SameSessions /\ SameApplications
    BY <2>2 DEF SameSessions, SameApplications
  <2>. QED  BY <1>0, <2>1, <2>2, <2>3, PortalRows DEF Typed
<1>2. CASE StartQuestion(s, q)
  <2>1. /\ Present(s) /\ Begun(s, sess[s].status)
        /\ ans' = [ans EXCEPT ![s][q].status = "pending"]
        /\ UNCHANGED << jobs, cand, queue, tab, hr, wk, employees >>
    BY <1>2 DEF StartQuestion, Admitted
  <2>2. sess' \in [Sessions -> SessionRow] /\ SameSessions
    BY <1>0, <2>1, BegunSet
  <2>3. ans' \in [Sessions -> [Questions -> AnswerRows]]
    BY <1>0, <2>1, AnswerStatusSet DEF AnswerStatuses
  <2>. QED  BY <1>0, <2>1, <2>2, <2>3, NothingMoves, PortalRows DEF Typed
<1>. QED  BY <1>1, <1>2

\* A request that holds an answer or lets go of it.
LEMMA TabPlaced ==
    ASSUME RowsInv, NEW t \in Tabs, NEW row \in TabRows, tab' = [tab EXCEPT ![t] = row],
           row.pc # "idle" => row.s \in Sessions /\ row.q \in Questions,
           sess' \in [Sessions -> SessionRow], SameSessions,
           ans' \in [Sessions -> [Questions -> AnswerRows]],
           queue' \in [Sessions -> [Questions -> Nat]],
           UNCHANGED << jobs, cand, hr, wk, employees >>
    PROVE  RowsInv'
<1>1. Typed' /\ Placed' /\ HiredOnce'
  BY DEF RowsInv, Typed, Placed, HiredOnce
<1>. QED  BY <1>1, NothingMoves, RowsKept

LEMMA ReadingRow ==
    ASSUME Typed, NEW s \in Sessions, NEW q \in Questions
    PROVE  [pc |-> "reading", s |-> s, q |-> q, row |-> ans[s][q].status # "absent",
            status |-> sess[s].status] \in TabRows
<1>1. sess[s].status \in SessionStatuses
  BY DEF Typed, SessionRow
<1>2. (ans[s][q].status # "absent") \in BOOLEAN
  OBVIOUS
<1>. QED  BY <1>1, <1>2 DEF TabRows

LEMMA PublishingRow ==
    ASSUME Typed, NEW t \in Tabs
    PROVE  /\ [tab[t] EXCEPT !.pc = "publishing"] \in TabRows
           /\ [tab[t] EXCEPT !.pc = "publishing"].pc = "publishing"
           /\ [tab[t] EXCEPT !.pc = "publishing"].s = tab[t].s
           /\ [tab[t] EXCEPT !.pc = "publishing"].q = tab[t].q
<1>1. tab[t] \in TabRows
  BY DEF Typed
<1>. QED  BY <1>1 DEF TabRows

LEMMA TabStep ==
    ASSUME RowsInv, NEW t \in Tabs,
           \/ \E s \in Sessions, q \in Questions : SubmitBegin(t, s, q)
           \/ SubmitCommit(t) \/ SubmitConflict(t) \/ Publish(t) \/ PublishFails(t)
           \/ RequestDies(t)
    PROVE  RowsInv'
<1>0. /\ Typed /\ ans \in [Sessions -> [Questions -> AnswerRows]]
      /\ sess \in [Sessions -> SessionRow] /\ queue \in [Sessions -> [Questions -> Nat]]
      /\ tab \in [Tabs -> TabRows]
  BY DEF RowsInv, Typed
<1>1. ASSUME NEW s \in Sessions, NEW q \in Questions, SubmitBegin(t, s, q) PROVE RowsInv'
  <2>1. PICK row \in TabRows : row = [pc |-> "reading", s |-> s, q |-> q,
                                      row |-> ans[s][q].status # "absent",
                                      status |-> sess[s].status]
    BY <1>0, ReadingRow
  <2>2. /\ tab' = [tab EXCEPT ![t] = row] /\ row.s = s /\ row.q = q
        /\ UNCHANGED << jobs, cand, sess, ans, queue, hr, wk, employees >>
    BY <1>1, <2>1 DEF SubmitBegin, rows
  <2>. QED  BY <1>0, <2>2, TabPlaced DEF SameSessions
<1>2. CASE SubmitCommit(t)
  <2>1. tab[t].s \in Sessions /\ tab[t].q \in Questions
    BY <1>2 DEF SubmitCommit, RowsInv, Placed
  <2>2. Present(tab[t].s) /\ Begun(tab[t].s, tab[t].status)
        /\ UNCHANGED << jobs, cand, queue, hr, wk, employees >>
    BY <1>2 DEF SubmitCommit
  <2>3. sess' \in [Sessions -> SessionRow] /\ SameSessions
    BY <1>0, <2>1, <2>2, BegunSet
  <2>4. PICK row \in TabRows :
           /\ tab' = [tab EXCEPT ![t] = row]
           /\ row.pc # "idle" => row.s \in Sessions /\ row.q \in Questions
    <3>1. CASE tab' = [tab EXCEPT ![t] = IdleTab]
      BY <3>1, EmptyRows DEF IdleTab
    <3>2. CASE tab' = [tab EXCEPT ![t].pc = "publishing"]
      <4>1. tab' = [tab EXCEPT ![t] = [tab[t] EXCEPT !.pc = "publishing"]]
        BY <3>2
      <4>. QED  BY <1>0, <2>1, <4>1, PublishingRow
    <3>. QED  BY <1>0, <1>2, <2>1, <3>1, <3>2, SubmittedSet
  <2>5. ans' \in [Sessions -> [Questions -> AnswerRows]]
    BY <1>0, <1>2, <2>1, SubmittedSet
  <2>. QED  BY <1>0, <2>2, <2>3, <2>4, <2>5, TabPlaced
<1>3. CASE SubmitConflict(t)
  BY <1>0, <1>3, EmptyRows, TabPlaced DEF SubmitConflict, IdleTab, rows, SameSessions
<1>4. CASE Publish(t)
  <2>1. tab[t].s \in Sessions /\ tab[t].q \in Questions
    BY <1>4 DEF Publish, RowsInv, Placed
  <2>2. queue' \in [Sessions -> [Questions -> Nat]]
    BY <1>0, <1>4, <2>1 DEF Publish
  <2>. QED  BY <1>0, <1>4, <2>2, EmptyRows, TabPlaced DEF Publish, IdleTab, rows, SameSessions
<1>5. CASE PublishFails(t)
  <2>1. tab[t].s \in Sessions /\ tab[t].q \in Questions
    BY <1>5 DEF PublishFails, RowsInv, Placed
  <2>2. ans' \in [Sessions -> [Questions -> AnswerRows]]
    <3>1. PICK status \in AnswerStatuses :
             ans' = [ans EXCEPT ![tab[t].s][tab[t].q].status = status]
      <4>1. ans' = [ans EXCEPT ![tab[t].s][tab[t].q].status =
                       IF ans[tab[t].s][tab[t].q].status = "absent"
                       THEN ans[tab[t].s][tab[t].q].status ELSE "failed"]
        BY <1>0, <1>5, <2>1 DEF PublishFails
      <4>. QED  BY <4>1 DEF AnswerStatuses
    <3>. QED  BY <1>0, <2>1, <3>1, AnswerStatusSet
  <2>. QED  BY <1>0, <1>5, <2>2, EmptyRows, TabPlaced DEF PublishFails, IdleTab, SameSessions
<1>6. CASE RequestDies(t)
  BY <1>0, <1>6, EmptyRows, TabPlaced DEF RequestDies, IdleTab, rows, SameSessions
<1>. QED  BY <1>1, <1>2, <1>3, <1>4, <1>5, <1>6

\* A task of a worker that holds an answer or lets go of it.
LEMMA TaskPlaced ==
    ASSUME RowsInv, NEW w \in Workers, NEW row \in WorkerRows, wk' = [wk EXCEPT ![w] = row],
           row.pc # "idle" => row.s \in Sessions /\ row.q \in Questions,
           SameApplications, cand' \in [Candidates -> CandidateRow],
           ans' \in [Sessions -> [Questions -> AnswerRows]],
           queue' \in [Sessions -> [Questions -> Nat]],
           UNCHANGED << jobs, sess, tab, hr, employees >>
    PROVE  RowsInv'
<1>1. Typed' /\ Placed' /\ HiredOnce' /\ SameSessions
  BY DEF RowsInv, Typed, Placed, HiredOnce, SameSessions
<1>. QED  BY <1>1, RowsKept

Received(s, q) ==
    [IdleWorker EXCEPT !.pc = "reading", !.s = s, !.q = q, !.text = ans[s][q].text]

LEMMA ReceivedRow ==
    ASSUME Typed, NEW s \in Sessions, NEW q \in Questions
    PROVE  /\ Received(s, q) \in WorkerRows /\ Received(s, q).pc = "reading"
           /\ Received(s, q).s = s /\ Received(s, q).q = q
           /\ Received(s, q).text = ans[s][q].text
<1>1. ans[s][q].text \in Nat
  BY DEF Typed, AnswerRows
<1>2. NoCandidate \in CandidateRow /\ NoSession \in SessionRow /\ NoJob \in JobRow
  BY EmptyRows
<1>. QED  BY <1>1, <1>2 DEF Received, WorkerRows, IdleWorker

LEMMA ConsultedRow ==
    ASSUME RowsInv, NEW w \in Workers, wk[w].pc # "idle", Present(wk[w].s)
    PROVE  LET row == [wk[w] EXCEPT !.pc = "grading", !.cand = cand[sess[wk[w].s].cand],
                                    !.sess = sess[wk[w].s], !.job = jobs[sess[wk[w].s].job]]
           IN  /\ row \in WorkerRows /\ row.pc = "grading" /\ row.s = wk[w].s /\ row.q = wk[w].q
               /\ row.text = wk[w].text /\ row.sess = sess[wk[w].s]
<1>1. wk[w] \in WorkerRows /\ wk[w].s \in Sessions
  BY DEF RowsInv, Typed, Placed
<1>2. sess[wk[w].s].cand \in Candidates /\ sess[wk[w].s].job \in Jobs
  BY <1>1, OwnerThere
<1>3. /\ cand[sess[wk[w].s].cand] \in CandidateRow /\ sess[wk[w].s] \in SessionRow
      /\ jobs[sess[wk[w].s].job] \in JobRow
  BY <1>1, <1>2 DEF RowsInv, Typed
<1>. QED  BY <1>1, <1>3 DEF WorkerRows

LEMMA WorkerRowsStep ==
    ASSUME RowsInv, NEW w \in Workers, WorkerStep(w) \/ WorkerDies(w)
    PROVE  RowsInv'
<1>0. /\ Typed /\ ans \in [Sessions -> [Questions -> AnswerRows]]
      /\ sess \in [Sessions -> SessionRow] /\ queue \in [Sessions -> [Questions -> Nat]]
      /\ wk \in [Workers -> WorkerRows] /\ cand \in [Candidates -> CandidateRow]
      /\ wk[w].pc # "idle" => wk[w].s \in Sessions /\ wk[w].q \in Questions
  BY DEF RowsInv, Typed, Placed
<1>1. ASSUME NEW s \in Sessions, NEW q \in Questions, Receive(w, s, q) PROVE RowsInv'
  <2>1. queue' \in [Sessions -> [Questions -> Nat]]
    BY <1>0, <1>1 DEF Receive
  <2>2. UNCHANGED << jobs, cand, sess, tab, hr, employees >>
    BY <1>1 DEF Receive
  <2>3. CASE UNCHANGED << ans, wk >>
    BY <1>0, <2>1, <2>2, <2>3, PortalRows, RowsKept, NothingMoves
       DEF RowsInv, Typed, Placed, HiredOnce, SameSessions
  <2>4. CASE ~ UNCHANGED << ans, wk >>
    <3>1. PICK row \in WorkerRows : row = Received(s, q) /\ row.s = s /\ row.q = q
      BY <1>0, ReceivedRow
    <3>2. row.s = s /\ row.q = q
      BY <3>1
    <3>3. /\ wk' = [wk EXCEPT ![w] = row]
          /\ ans' = [ans EXCEPT ![s][q].status = "processing"]
      BY <1>1, <2>4, <3>1 DEF Receive, Received
    <3>4. ans' \in [Sessions -> [Questions -> AnswerRows]]
      BY <1>0, <3>3, AnswerStatusSet DEF AnswerStatuses
    <3>. QED  BY <1>0, <2>1, <2>2, <3>2, <3>3, <3>4, NothingMoves, TaskPlaced
  <2>. QED  BY <2>3, <2>4
<1>2. CASE Consult(w)
  <2>1. PICK row \in WorkerRows :
           row = [wk[w] EXCEPT !.pc = "grading", !.cand = cand[sess[wk[w].s].cand],
                               !.sess = sess[wk[w].s], !.job = jobs[sess[wk[w].s].job]]
    BY <1>2, ConsultedRow DEF Consult
  <2>2. row.s = wk[w].s /\ row.q = wk[w].q
    BY <1>2, <2>1, ConsultedRow DEF Consult
  <2>3. wk' = [wk EXCEPT ![w] = row] /\ wk[w].pc # "idle"
    BY <1>0, <1>2, <2>1 DEF Consult
  <2>. QED  BY <1>0, <1>2, <2>2, <2>3, NothingMoves, TaskPlaced DEF Consult, rows
<1>3. CASE Grade(w)
  <2>1. /\ Present(wk[w].s) /\ wk[w].s \in Sessions /\ wk[w].q \in Questions
        /\ wk' = [wk EXCEPT ![w] = IdleWorker]
        /\ UNCHANGED << jobs, sess, queue, tab, hr, employees >>
        /\ ans' = [ans EXCEPT ![wk[w].s][wk[w].q].status = "evaluated",
                              ![wk[w].s][wk[w].q].graded = wk[w].text]
    BY <1>0, <1>3 DEF Grade
  <2>2. wk[w].text \in Nat
    BY <1>0 DEF WorkerRows
  <2>3. ans' \in [Sessions -> [Questions -> AnswerRows]]
    BY <1>0, <2>1, <2>2, GradedSet
  <2>4. PICK status \in {cand[sess[wk[w].s].cand].status, "evaluated"} :
           SetStatus(sess[wk[w].s].cand, status)
    <3> DEFINE c == sess[wk[w].s].cand
               graded == [ans EXCEPT ![wk[w].s][wk[w].q].status = "evaluated",
                                     ![wk[w].s][wk[w].q].graded = wk[w].text]
               seen == Synced(c, wk[w].cand, [sess EXCEPT ![wk[w].s] = wk[w].sess], graded,
                              [jobs EXCEPT ![wk[w].sess.job] = wk[w].job], sess)
    <3>1. SetStatus(c, IF seen # wk[w].cand.status THEN seen ELSE cand[c].status)
      BY <1>3 DEF Grade
    <3>2. seen \in {wk[w].cand.status, "evaluated"}
      BY DEF Synced
    <3>. HIDE DEF seen, c
    <3>3. (IF seen # wk[w].cand.status THEN seen ELSE cand[c].status)
             \in {cand[c].status, "evaluated"}
      BY <3>2
    <3>. QED  BY <3>1, <3>3 DEF c
  <2>5. cand' \in [Candidates -> CandidateRow] /\ SameApplications
    BY <2>1, <2>4, StatusOfOwner
  <2>. QED  BY <1>0, <2>1, <2>3, <2>5, EmptyRows, TaskPlaced DEF IdleWorker
<1>4. CASE GradeFails(w)
  <2>1. /\ wk[w].s \in Sessions /\ wk[w].q \in Questions
        /\ wk' = [wk EXCEPT ![w] = IdleWorker]
        /\ UNCHANGED << jobs, sess, queue, tab, hr, employees >>
    BY <1>0, <1>4 DEF GradeFails
  <2>2. CASE Present(wk[w].s)
    <3>1. ans' = [ans EXCEPT ![wk[w].s][wk[w].q].status = "failed"]
      BY <1>4, <2>2 DEF GradeFails
    <3>2. ans' \in [Sessions -> [Questions -> AnswerRows]]
      BY <1>0, <2>1, <3>1, AnswerStatusSet DEF AnswerStatuses
    <3>3. PICK status \in {cand[sess[wk[w].s].cand].status, "evaluated"} :
             SetStatus(sess[wk[w].s].cand, status)
      <4> DEFINE c == sess[wk[w].s].cand
                 seen == Synced(c, cand[c], sess,
                                [ans EXCEPT ![wk[w].s][wk[w].q].status = "failed"], jobs, sess)
      <4>1. SetStatus(c, seen)
        BY <1>4, <2>2 DEF GradeFails
      <4>2. seen \in {cand[c].status, "evaluated"}
        BY SyncedStatus
      <4>. HIDE DEF seen
      <4>. QED  BY <4>1, <4>2
    <3>4. cand' \in [Candidates -> CandidateRow] /\ SameApplications
      BY <2>1, <2>2, <3>3, StatusOfOwner
    <3>. QED  BY <1>0, <2>1, <3>2, <3>4, EmptyRows, TaskPlaced DEF IdleWorker
  <2>3. CASE ~ Present(wk[w].s)
    BY <1>0, <1>4, <2>1, <2>3, EmptyRows, NothingMoves, TaskPlaced DEF GradeFails, IdleWorker
  <2>. QED  BY <2>2, <2>3
<1>5. CASE WorkerDies(w)
  BY <1>0, <1>5, EmptyRows, NothingMoves, TaskPlaced DEF WorkerDies, IdleWorker, rows
<1>. QED  BY <1>1, <1>2, <1>3, <1>4, <1>5 DEF WorkerStep

LEMMA StepRows == RowsInv /\ [Next]_vars => RowsInv'
<1>. SUFFICES ASSUME RowsInv, [Next]_vars PROVE RowsInv'
  OBVIOUS
<1>1. CASE UNCHANGED vars
  BY <1>1 DEF vars, RowsInv, Typed, Placed, Owned, OneRowPerJob, HiredOnce, Exists, Present
<1>2. CASE Next
  <2>1. ASSUME NEW c \in Candidates,
               Reject(c) \/ Archive(c) \/ Shortlist(c) \/ Accept(c) \/ Restore(c)
        PROVE  RowsInv'
    BY <2>1, DecideStep, RestoreStep DEF Reject, Archive, Shortlist, Accept
  <2>. QED  BY <1>2, <2>1, JobStep, CreateStep, RegisterStep, BulkArchiveStep, InviteStep,
               ConvertStep, HireStep, PurgeStep, TimeStep, PortalStep, AnswerStep, TabStep,
               WorkerRowsStep
            DEF Next
<1>. QED  BY <1>1, <1>2

\* A person has at most one application per job, for any applications, moves of a reused
\* row, deletions and gradings: create_candidate and the registration alone begin or move
\* one, and the unique constraint looks at every other row.
THEOREM OneApplication == Spec => []OneRowPerJob
<1>1. RowsInv => OneRowPerJob
  BY DEF RowsInv
<1>. QED  BY <1>1, InitRows, StepRows, PTL DEF Spec

\* A person with a national ID is hired once, for any HR requests that overlap.
THEOREM OneHire == Spec => []OneEmployeePerPerson
<1>1. RowsInv => OneEmployeePerPerson
  <2>. SUFFICES ASSUME RowsInv, HasNationalId
                PROVE  Cardinality({k \in Codes : employees[k] # None}) <= 1
    BY DEF OneEmployeePerPerson
  <2> DEFINE taken == {k \in Codes : employees[k] # None}
  <2>1. \A k, l \in taken : k = l
    BY DEF RowsInv, HiredOnce
  <2>. HIDE DEF taken
  <2>2. CASE taken = {}
    BY <2>2, FS_EmptySet DEF taken
  <2>3. ASSUME NEW k \in taken PROVE Cardinality(taken) <= 1
    <3>1. taken = {k}
      BY <2>1
    <3>. QED  BY <3>1, FS_Singleton
  <2>4. Cardinality(taken) <= 1
    BY <2>2, <2>3, FS_EmptySet
  <2>. QED  BY <2>4 DEF taken
<1>. QED  BY <1>1, InitRows, StepRows, PTL DEF Spec

----------------------------------------------------------------------------
(* The answers. *)

\* No two requests wait for the audio of the same answer.
SubmissionsApart ==
    \A t, u \in Tabs :
        /\ tab[t].pc = "reading" /\ tab[u].pc = "reading"
        /\ tab[t].s = tab[u].s /\ tab[t].q = tab[u].q
        => t = u

Answered(s) == \A q \in Questions : q <= sess[s].count => ans[s][q].text = 1

\* An answer is submitted once, its score is for that submission, and only submitted
\* answers are sent to the workers.
AnswerGood(s, q) ==
    /\ ans[s][q].status # "absent" => There(sess[s]) /\ q <= sess[s].count
    /\ ans[s][q].text > 0 => ans[s][q].text = 1 /\ ans[s][q].status # "absent"
    /\ ans[s][q].status = "evaluated" => ans[s][q].text = 1 /\ ans[s][q].graded = 1
    /\ queue[s][q] > 0 => /\ sess[s].status # "absent"
                          /\ There(sess[s]) => ans[s][q].text = 1

\* A request that waits for its audio finds the answer still without a submission.
TabGood(t) ==
    LET s == tab[t].s q == tab[t].q IN
    /\ sess[s].status # "absent"
    /\ There(sess[s]) => q <= sess[s].count
    /\ tab[t].pc = "reading" =>
          /\ ans[s][q].text = 0
          /\ tab[t].row /\ There(sess[s]) => ans[s][q].status # "absent"
    /\ tab[t].pc = "publishing" /\ There(sess[s]) => ans[s][q].text = 1

\* A task grades the submission that the row stores; a copy of a completed session is of
\* one that has every answer and can at most have expired since.
TaskGood(w) ==
    LET s == wk[w].s q == wk[w].q IN
    /\ sess[s].status # "absent"
    /\ wk[w].text = 1
    /\ There(sess[s]) => ans[s][q].text = 1
    /\ wk[w].pc = "grading" /\ There(sess[s]) =>
          /\ wk[w].sess.cand = sess[s].cand
          /\ wk[w].sess.count = sess[s].count
          /\ wk[w].sess.status = "completed" =>
                sess[s].status \in {"completed", "expired"} /\ Answered(s)

SubmittedOnce ==
    /\ \A s \in Sessions, q \in Questions : AnswerGood(s, q)
    /\ \A t \in Tabs : tab[t].pc # "idle" => TabGood(t)
    /\ \A w \in Workers : wk[w].pc # "idle" => TaskGood(w)
    /\ \A s \in Sessions : sess[s].status = "completed" => Answered(s)

LEMMA InitSubmitted == Init => SubmittedOnce
<1>. SUFFICES ASSUME Init PROVE SubmittedOnce
  OBVIOUS
<1>1. \A s \in Sessions, q \in Questions : AnswerGood(s, q)
  BY DEF Init, AnswerGood, NoAnswer
<1>. QED  BY <1>1 DEF Init, SubmittedOnce, IdleTab, IdleWorker, NoSession

(* What a step may do to an answer, to a session and to a message. *)

AnswerGoesOn(s, q) ==
    /\ \/ ans'[s][q].text = ans[s][q].text
       \/ ans[s][q].text = 0 /\ ans'[s][q].text = 1 /\ ans'[s][q].status # "absent"
    /\ ans[s][q].status # "absent" => ans'[s][q].status # "absent"
    /\ ans'[s][q].status # "absent" => ans[s][q].status # "absent" \/ q <= sess[s].count
    /\ ans'[s][q].status = "evaluated" =>
          \/ ans[s][q].status = "evaluated" /\ ans'[s][q].graded = ans[s][q].graded
          \/ ans'[s][q].text = 1 /\ ans'[s][q].graded = 1

SessionGoesOn(s) ==
    /\ sess[s].status # "absent" => sess'[s].status # "absent"
    /\ There(sess'[s]) =>
          \/ sess[s].status = "absent" /\ sess'[s].status # "completed" /\ ans'[s] = ans[s]
          \/ /\ There(sess[s])
             /\ sess'[s].cand = sess[s].cand /\ sess'[s].count = sess[s].count
             /\ sess[s].status \in {"completed", "expired"} /\ Answered(s) =>
                   sess'[s].status \in {"completed", "expired"}
             /\ sess'[s].status = "completed" => sess[s].status = "completed" \/ Answered(s)
             /\ \A q \in Questions : AnswerGoesOn(s, q)
    /\ ~ There(sess'[s]) =>
          \A q \in Questions : ans'[s][q].status = "absent" /\ ans'[s][q].text = 0

MessagesGoOn ==
    \A s \in Sessions, q \in Questions : queue'[s][q] > 0 =>
        \/ queue[s][q] > 0
        \/ sess[s].status # "absent" /\ (There(sess[s]) => ans[s][q].text = 1)

GoesOn == MessagesGoOn /\ \A s \in Sessions : SessionGoesOn(s)

LEMMA AnsweredGoesOn ==
    ASSUME RowsInv, SubmittedOnce, GoesOn, NEW s \in Sessions, There(sess[s]), There(sess'[s]),
           Answered(s)
    PROVE  Answered(s)'
<1>1. ASSUME NEW q \in Questions PROVE AnswerGoesOn(s, q) /\ sess'[s].count = sess[s].count
  BY DEF GoesOn, SessionGoesOn, There
<1>. QED  BY <1>1 DEF Answered, AnswerGoesOn

LEMMA AnswersGoOn ==
    ASSUME RowsInv, RowsInv', SubmittedOnce, GoesOn, NEW s \in Sessions, NEW q \in Questions
    PROVE  AnswerGood(s, q)'
<1>1. /\ AnswerGood(s, q) /\ SessionGoesOn(s)
      /\ queue'[s][q] > 0 => \/ queue[s][q] > 0
                             \/ /\ sess[s].status # "absent"
                                /\ There(sess[s]) => ans[s][q].text = 1
  BY DEF SubmittedOnce, GoesOn, MessagesGoOn
<1>2. ans[s][q].text \in Nat /\ ans'[s][q].text \in Nat
  BY DEF RowsInv, Typed, AnswerRows
<1>3. CASE ~ There(sess'[s])
  BY <1>1, <1>2, <1>3 DEF AnswerGood, SessionGoesOn, There
<1>4. CASE There(sess'[s]) /\ sess[s].status = "absent"
  BY <1>1, <1>2, <1>4 DEF AnswerGood, SessionGoesOn, There
<1>5. CASE There(sess'[s]) /\ There(sess[s])
  <2>1. AnswerGoesOn(s, q) /\ sess'[s].count = sess[s].count
    BY <1>1, <1>5 DEF SessionGoesOn, There
  <2>. QED  BY <1>1, <1>2, <1>5, <2>1 DEF AnswerGood, AnswerGoesOn, There
<1>. QED  BY <1>1, <1>3, <1>4, <1>5 DEF SessionGoesOn

\* Another request's submission would be of another answer.
LEMMA TabGoesOn ==
    ASSUME RowsInv, RowsInv', SubmittedOnce, GoesOn, NEW t \in Tabs, tab'[t] = tab[t],
           tab[t].pc # "idle",
           tab[t].pc = "reading" => ans'[tab[t].s][tab[t].q].text = ans[tab[t].s][tab[t].q].text
    PROVE  TabGood(t)'
<1>1. PICK s \in Sessions, q \in Questions : s = tab[t].s /\ q = tab[t].q
  BY DEF RowsInv, Placed
<1>2. TabGood(t) /\ SessionGoesOn(s) /\ AnswerGood(s, q)
  BY <1>1 DEF SubmittedOnce, GoesOn
<1>3. CASE ~ There(sess'[s])
  BY <1>1, <1>2, <1>3 DEF TabGood, SessionGoesOn, There
<1>4. CASE There(sess'[s])
  <2>1. There(sess[s]) /\ AnswerGoesOn(s, q) /\ sess'[s].count = sess[s].count
    BY <1>1, <1>2, <1>4 DEF TabGood, SessionGoesOn, There
  <2>. QED  BY <1>1, <1>2, <1>4, <2>1 DEF TabGood, SessionGoesOn, AnswerGoesOn, There
<1>. QED  BY <1>3, <1>4

LEMMA TaskGoesOn ==
    ASSUME RowsInv, RowsInv', SubmittedOnce, GoesOn, NEW w \in Workers, wk'[w] = wk[w],
           wk[w].pc # "idle"
    PROVE  TaskGood(w)'
<1>1. PICK s \in Sessions, q \in Questions : s = wk[w].s /\ q = wk[w].q
  BY DEF RowsInv, Placed
<1>2. TaskGood(w) /\ SessionGoesOn(s)
  BY <1>1 DEF SubmittedOnce, GoesOn
<1>3. CASE ~ There(sess'[s])
  BY <1>1, <1>2, <1>3 DEF TaskGood, SessionGoesOn, There
<1>4. CASE There(sess'[s])
  <2>1. /\ There(sess[s]) /\ AnswerGoesOn(s, q)
        /\ sess'[s].cand = sess[s].cand /\ sess'[s].count = sess[s].count
        /\ sess[s].status \in {"completed", "expired"} /\ Answered(s) =>
              sess'[s].status \in {"completed", "expired"}
    BY <1>1, <1>2, <1>4 DEF TaskGood, SessionGoesOn, There
  <2>2. Answered(s) => Answered(s)'
    BY <1>4, <2>1, AnsweredGoesOn
  <2>3. ans'[s][q].text = 1
    BY <1>1, <1>2, <2>1 DEF TaskGood, AnswerGoesOn
  <2>. QED  BY <1>1, <1>2, <1>4, <2>1, <2>2, <2>3 DEF TaskGood, There
<1>. QED  BY <1>3, <1>4

LEMMA CompletedGoesOn ==
    ASSUME RowsInv, SubmittedOnce, GoesOn, NEW s \in Sessions, sess'[s].status = "completed"
    PROVE  Answered(s)'
<1>1. There(sess'[s])
  BY DEF There
<1>2. There(sess[s]) /\ Answered(s)
  BY <1>1 DEF SubmittedOnce, GoesOn, SessionGoesOn
<1>. QED  BY <1>1, <1>2, AnsweredGoesOn

\* Steps after which every request and task holds what it held or nothing.
LEMMA NothingTaken ==
    ASSUME RowsInv, RowsInv', SubmittedOnce, GoesOn,
           \A t \in Tabs : tab'[t].pc # "idle" =>
              /\ tab'[t] = tab[t]
              /\ tab[t].pc = "reading" =>
                    ans'[tab[t].s][tab[t].q].text = ans[tab[t].s][tab[t].q].text,
           \A w \in Workers : wk'[w].pc # "idle" => wk'[w] = wk[w]
    PROVE  SubmittedOnce'
<1>1. \A s \in Sessions, q \in Questions : AnswerGood(s, q)'
  BY AnswersGoOn
<1>2. \A t \in Tabs : tab'[t].pc # "idle" => TabGood(t)'
  BY TabGoesOn
<1>3. \A w \in Workers : wk'[w].pc # "idle" => TaskGood(w)'
  BY TaskGoesOn
<1>4. \A s \in Sessions : sess'[s].status = "completed" => Answered(s)'
  BY CompletedGoesOn
<1>. QED  BY <1>1, <1>2, <1>3, <1>4 DEF SubmittedOnce

LEMMA SubmittedOnceKept ==
    ASSUME SubmittedOnce, UNCHANGED << sess, ans, queue, tab, wk >>
    PROVE  SubmittedOnce'
BY DEF SubmittedOnce, AnswerGood, TabGood, TaskGood, Answered, There

LEMMA SameGoesOn ==
    ASSUME RowsInv, SubmittedOnce, NEW s \in Sessions, sess'[s] = sess[s], ans'[s] = ans[s]
    PROVE  SessionGoesOn(s)
<1>1. \A q \in Questions : ans[s][q].text \in Nat /\ AnswerGood(s, q)
  BY DEF RowsInv, Typed, AnswerRows, SubmittedOnce
<1>2. \A q \in Questions : AnswerGoesOn(s, q)
  BY <1>1 DEF AnswerGood, AnswerGoesOn
<1>3. ~ There(sess[s]) => \A q \in Questions : ans[s][q].status = "absent" /\ ans[s][q].text = 0
  BY <1>1 DEF AnswerGood
<1>. QED  BY <1>2, <1>3 DEF SessionGoesOn, There

LEMMA OpenGoesOn ==
    ASSUME RowsInv, SubmittedOnce, NEW s \in Sessions, sess[s].status = "absent",
           sess'[s].status = "invited", ans'[s] = ans[s]
    PROVE  SessionGoesOn(s)
BY DEF SessionGoesOn, There

\* The session's row or its answers change.
LEMMA MovesOn ==
    ASSUME NEW s \in Sessions, There(sess[s]), There(sess'[s]),
           sess'[s].cand = sess[s].cand, sess'[s].count = sess[s].count,
           sess[s].status \in {"completed", "expired"} /\ Answered(s) =>
              sess'[s].status \in {"completed", "expired"},
           sess'[s].status = "completed" => sess[s].status = "completed" \/ Answered(s),
           \A q \in Questions : AnswerGoesOn(s, q)
    PROVE  SessionGoesOn(s)
BY DEF SessionGoesOn, There

LEMMA SameAnswers ==
    ASSUME RowsInv, SubmittedOnce, NEW s \in Sessions, ans'[s] = ans[s]
    PROVE  \A q \in Questions : AnswerGoesOn(s, q)
BY DEF SubmittedOnce, AnswerGood, AnswerGoesOn

LEMMA SameAnswer ==
    ASSUME RowsInv, SubmittedOnce, NEW s \in Sessions, NEW q \in Questions,
           ans'[s][q] = ans[s][q]
    PROVE  AnswerGoesOn(s, q)
BY DEF SubmittedOnce, AnswerGood, AnswerGoesOn

LEMMA NoNewMessages ==
    ASSUME queue' = queue
    PROVE  MessagesGoOn
BY DEF MessagesGoOn

\* A session is opened: it has no answers, messages, requests or tasks yet.
LEMMA OpenSubmitted ==
    ASSUME RowsInv, RowsInv', SubmittedOnce, NEW s \in Sessions, sess[s].status = "absent",
           sess'[s].status = "invited",
           \A x \in Sessions \ {s} :
              \/ sess'[x] = sess[x]
              \/ /\ sess[x].status \in {"invited", "in_progress"} /\ sess'[x].status = "cancelled"
                 /\ sess'[x].cand = sess[x].cand /\ sess'[x].count = sess[x].count,
           UNCHANGED << ans, queue, tab, wk >>
    PROVE  SubmittedOnce'
<1>1. SessionGoesOn(s)
  BY OpenGoesOn
<1>2. ASSUME NEW x \in Sessions \ {s} PROVE SessionGoesOn(x)
  <2>1. CASE sess'[x] = sess[x]
    BY <2>1, SameGoesOn
  <2>2. CASE sess'[x] # sess[x]
    <3>1. /\ sess[x].status \in {"invited", "in_progress"} /\ sess'[x].status = "cancelled"
          /\ sess'[x].cand = sess[x].cand /\ sess'[x].count = sess[x].count
      BY <2>2
    <3>2. There(sess[x]) /\ There(sess'[x])
      BY <3>1 DEF There
    <3>. QED  BY <3>1, <3>2, SameAnswers, MovesOn
  <2>. QED  BY <2>1, <2>2
<1>3. GoesOn
  BY <1>1, <1>2, NoNewMessages DEF GoesOn
<1>. QED  BY <1>3, NothingTaken

LEMMA InviteSubmitted ==
    ASSUME RowsInv, RowsInv', SubmittedOnce, NEW c \in Candidates, NEW s \in Sessions,
           \/ \E j \in Jobs : Register(c, j, s)
           \/ Invite(c, s) \/ Notify(c, s) \/ BulkNotify(c, s)
    PROVE  SubmittedOnce'
<1>1. ASSUME NEW j \in Jobs, Register(c, j, s) PROVE SubmittedOnce'
  <2>1. PICK n \in QuestionCounts : RegisteredSession(c, j, s, n)
    BY <1>1 DEF Register
  <2>2. sess[s].status = "absent" /\ UNCHANGED << ans, queue, tab, wk >>
    BY <1>1, <2>1 DEF Register, RegisteredSession
  <2>. QED  BY <2>1, <2>2, RegisteredTyped, OpenSubmitted
<1>2. CASE Invite(c, s) \/ Notify(c, s) \/ BulkNotify(c, s)
  <2>1. PICK n \in QuestionCounts : Opens(c, cand[c].job, s, n)
    BY <1>2 DEF Invite, Notify, BulkNotify, Opens
  <2>2. sess[s].status = "absent" /\ Exists(c) /\ UNCHANGED << ans, queue, tab, wk >>
    BY <1>2 DEF Invite, Notify, BulkNotify
  <2>3. PICK j \in Jobs : j = cand[c].job
    BY <2>2 DEF RowsInv, Owned
  <2>4. /\ sess'[s].status = "invited"
        /\ \A x \in Sessions \ {s} : sess'[x] = sess[x]
    <3>1. Opens(c, j, s, n)
      BY <2>1, <2>3
    <3>. QED  BY <3>1, SessionOpens
  <2>. QED  BY <2>2, <2>4, OpenSubmitted
<1>. QED  BY <1>1, <1>2

\* A count of answers that reaches the number of questions is of every question.
LEMMA AllCounted ==
    ASSUME RowsInv, SubmittedOnce, NEW s \in Sessions, There(sess[s]),
           Cardinality({q \in Questions : ans[s][q].text > 0}) >= sess[s].count
    PROVE  Answered(s)
<1> DEFINE n == sess[s].count
           handed == {q \in Questions : ans[s][q].text > 0}
<1>1. n \in Nat
  BY InterviewAssumption DEF RowsInv, Typed, SessionRow
<1>2. \A q \in Questions : q \in Nat \ {0} /\ AnswerGood(s, q)
  BY InterviewAssumption DEF SubmittedOnce
<1>3. handed \subseteq 1..n
  BY <1>1, <1>2 DEF AnswerGood
<1>8. Cardinality(handed) >= n
  OBVIOUS
<1>. HIDE DEF n, handed
<1>4. IsFiniteSet(1..n) /\ Cardinality(1..n) = n
  <2>1. /\ IsFiniteSet(1..n)
        /\ Cardinality(1..n) = IF 1 > n THEN 0 ELSE n - 1 + 1
    BY <1>1, FS_Interval
  <2>. QED  BY <1>1, <2>1
<1>6. handed = 1..n
  <2>1. /\ Cardinality(handed) <= Cardinality(1..n) /\ IsFiniteSet(handed)
        /\ Cardinality(1..n) = Cardinality(handed) => 1..n = handed
    BY <1>3, <1>4, FS_Subset
  <2>2. Cardinality(handed) \in Nat
    BY <2>1, FS_CardinalityType
  <2>. QED  BY <1>1, <1>4, <1>8, <2>1, <2>2
<1>7. ASSUME NEW q \in Questions, q <= n PROVE ans[s][q].text = 1
  <2>1. q \in handed
    BY <1>1, <1>2, <1>6, <1>7
  <2>. QED  BY <1>2, <2>1 DEF AnswerGood, handed
<1>. QED  BY <1>7 DEF Answered, n

LEMMA PortalSubmitted ==
    ASSUME RowsInv, RowsInv', SubmittedOnce, NEW s \in Sessions,
           SessionExpires(s) \/ ExpiredVisit(s) \/ SubmitMcq(s) \/ Complete(s)
    PROVE  SubmittedOnce'
<1>0. Typed
  BY DEF RowsInv
<1>1. There(sess[s]) /\ UNCHANGED << ans, queue, tab, wk >>
  BY DEF SessionExpires, ExpiredVisit, SubmitMcq, Complete, Admitted, Present, There
<1>2. /\ sess'[s].cand = sess[s].cand /\ sess'[s].count = sess[s].count
      /\ \A x \in Sessions \ {s} : sess'[x] = sess[x]
      /\ There(sess'[s])
      /\ sess[s].status \in {"completed", "expired"} => sess'[s].status \in {"completed", "expired"}
      /\ sess'[s].status = "completed" => sess[s].status = "completed" \/ Answered(s)
  <2>1. CASE SessionExpires(s)
    BY <1>0, <1>1, <2>1, SessionExpiresSet DEF There
  <2>2. CASE ExpiredVisit(s)
    <3>1. sess' = [sess EXCEPT ![s].status = "expired"] /\ Present(s)
      BY <2>2 DEF ExpiredVisit
    <3>. QED  BY <1>0, <3>1, StatusWritten DEF There, SessionStatuses
  <2>3. CASE SubmitMcq(s)
    BY <1>0, <1>1, <2>3, McqSet DEF There
  <2>4. CASE Complete(s)
    <3>1. sess' = [sess EXCEPT ![s].status = "completed"] /\ Present(s)
      BY <2>4 DEF Complete, Admitted
    <3>2. Answered(s)
      BY <1>1, <2>4, AllCounted DEF Complete
    <3>. QED  BY <1>0, <3>1, <3>2, StatusWritten DEF There, SessionStatuses
  <2>. QED  BY <2>1, <2>2, <2>3, <2>4
<1>3. SessionGoesOn(s)
  BY <1>1, <1>2, SameAnswers, MovesOn
<1>4. GoesOn
  BY <1>1, <1>2, <1>3, SameGoesOn, NoNewMessages DEF GoesOn
<1>. QED  BY <1>1, <1>4, NothingTaken

LEMMA PurgeSubmitted ==
    ASSUME RowsInv, RowsInv', SubmittedOnce, Purge
    PROVE  SubmittedOnce'
<1> DEFINE gone == {c \in Candidates : cand[c].status = "archived" /\ cand[c].old}
<1>1. /\ sess' = [s \in Sessions |->
                     IF sess[s].cand \in gone THEN [NoSession EXCEPT !.status = "deleted"]
                     ELSE sess[s]]
      /\ ans' = [s \in Sessions |->
                     IF sess[s].cand \in gone THEN [q \in Questions |-> NoAnswer] ELSE ans[s]]
      /\ UNCHANGED << queue, tab, wk >>
  BY DEF Purge
<1>. HIDE DEF gone
<1>2. ASSUME NEW s \in Sessions PROVE SessionGoesOn(s)
  <2>1. CASE sess[s].cand \in gone
    <3>1. sess'[s].status = "deleted"
      BY <1>1, <2>1 DEF NoSession
    <3>2. \A q \in Questions : ans'[s][q].status = "absent" /\ ans'[s][q].text = 0
      BY <1>1, <2>1 DEF NoAnswer
    <3>. QED  BY <3>1, <3>2 DEF SessionGoesOn, There
  <2>2. CASE sess[s].cand \notin gone
    BY <1>1, <2>2, SameGoesOn
  <2>. QED  BY <2>1, <2>2
<1>3. GoesOn
  BY <1>1, <1>2, NoNewMessages DEF GoesOn
<1>4. ASSUME NEW t \in Tabs, tab[t].pc = "reading"
      PROVE  ans'[tab[t].s][tab[t].q].text = ans[tab[t].s][tab[t].q].text
  <2>1. PICK s \in Sessions, q \in Questions : s = tab[t].s /\ q = tab[t].q
    BY <1>4 DEF RowsInv, Placed
  <2>2. ans[s][q].text = 0
    BY <1>4, <2>1 DEF SubmittedOnce, TabGood
  <2>3. ans'[s] = ans[s] \/ ans'[s][q] = NoAnswer
    BY <1>1
  <2>. QED  BY <2>1, <2>2, <2>3 DEF NoAnswer
<1>. QED  BY <1>1, <1>3, <1>4, NothingTaken

\* One answer changes, and its session's row with it.
LEMMA OneAnswerGoesOn ==
    ASSUME RowsInv, SubmittedOnce, NEW s \in Sessions, NEW q \in Questions,
           There(sess[s]), There(sess'[s]),
           sess'[s].cand = sess[s].cand, sess'[s].count = sess[s].count,
           sess[s].status \in {"completed", "expired"} /\ Answered(s) =>
              sess'[s].status \in {"completed", "expired"},
           sess'[s].status = "completed" => sess[s].status = "completed",
           \A x \in Sessions \ {s} : sess'[x] = sess[x],
           ans' \in [Sessions -> [Questions -> AnswerRows]],
           \A x \in Sessions, p \in Questions : x # s \/ p # q => ans'[x][p] = ans[x][p],
           AnswerGoesOn(s, q)
    PROVE  \A x \in Sessions : SessionGoesOn(x)
<1>1. \A p \in Questions : AnswerGoesOn(s, p)
  BY SameAnswer
<1>2. SessionGoesOn(s)
  BY <1>1, MovesOn
<1>3. ASSUME NEW x \in Sessions \ {s} PROVE SessionGoesOn(x)
  <2>1. ans'[x] = ans[x]
    <3>1. ans[x] \in [Questions -> AnswerRows] /\ ans'[x] \in [Questions -> AnswerRows]
      BY DEF RowsInv, Typed
    <3>2. \A p \in Questions : ans'[x][p] = ans[x][p]
      OBVIOUS
    <3>. QED  BY <3>1, <3>2
  <2>. QED  BY <2>1, SameGoesOn
<1>. QED  BY <1>2, <1>3

LEMMA AnswerSubmitted ==
    ASSUME RowsInv, RowsInv', SubmittedOnce, NEW s \in Sessions, NEW q \in Questions,
           TimeLimitPasses(s, q) \/ StartQuestion(s, q)
    PROVE  SubmittedOnce'
<1>0. Typed /\ ans' \in [Sessions -> [Questions -> AnswerRows]]
  BY DEF RowsInv, Typed
<1>1. UNCHANGED << queue, tab, wk >>
  BY DEF TimeLimitPasses, StartQuestion
<1>2. /\ There(sess[s]) /\ ans'[s][q].text = ans[s][q].text
      /\ \A x \in Sessions, p \in Questions : x # s \/ p # q => ans'[x][p] = ans[x][p]
      /\ AnswerGoesOn(s, q)
  <2>1. CASE TimeLimitPasses(s, q)
    <3>1. /\ ans'[s][q].status = ans[s][q].status /\ ans'[s][q].text = ans[s][q].text
          /\ ans'[s][q].graded = ans[s][q].graded
          /\ \A x \in Sessions, p \in Questions : x # s \/ p # q => ans'[x][p] = ans[x][p]
      BY <1>0, <2>1, OverdueSet
    <3>2. There(sess[s])
      BY <2>1 DEF TimeLimitPasses, SubmittedOnce, AnswerGood
    <3>. QED  BY <3>1, <3>2 DEF AnswerGoesOn
  <2>2. CASE StartQuestion(s, q)
    <3>1. /\ ans' = [ans EXCEPT ![s][q].status = "pending"]
          /\ ans[s][q].status = "absent" /\ q <= sess[s].count /\ Present(s)
      BY <2>2 DEF StartQuestion, Admitted
    <3>2. /\ ans'[s][q].status = "pending" /\ ans'[s][q].text = ans[s][q].text
          /\ \A x \in Sessions, p \in Questions : x # s \/ p # q => ans'[x][p] = ans[x][p]
      BY <1>0, <3>1, AnswerStatusSet DEF AnswerStatuses
    <3>. QED  BY <3>1, <3>2 DEF AnswerGoesOn, Present, There
  <2>. QED  BY <2>1, <2>2
<1>3. /\ sess'[s].cand = sess[s].cand /\ sess'[s].count = sess[s].count /\ There(sess'[s])
      /\ sess[s].status \in {"completed", "expired"} => sess'[s].status = sess[s].status
      /\ sess'[s].status = "completed" => sess[s].status = "completed"
      /\ \A x \in Sessions \ {s} : sess'[x] = sess[x]
  <2>1. CASE TimeLimitPasses(s, q)
    BY <1>2, <2>1 DEF TimeLimitPasses
  <2>2. CASE StartQuestion(s, q)
    <3>1. Present(s) /\ Begun(s, sess[s].status)
      BY <2>2 DEF StartQuestion, Admitted
    <3>. QED  BY <1>0, <1>2, <3>1, BegunSet DEF There
  <2>. QED  BY <2>1, <2>2
<1>4. GoesOn
  BY <1>0, <1>1, <1>2, <1>3, OneAnswerGoesOn, NoNewMessages DEF GoesOn
<1>5. ASSUME NEW t \in Tabs, tab[t].pc = "reading"
      PROVE  ans'[tab[t].s][tab[t].q].text = ans[tab[t].s][tab[t].q].text
  <2>1. PICK x \in Sessions, p \in Questions : x = tab[t].s /\ p = tab[t].q
    BY <1>5 DEF RowsInv, Placed
  <2>. QED  BY <1>2, <2>1
<1>. QED  BY <1>1, <1>4, <1>5, NothingTaken

(* The requests. *)

\* A request takes up one answer; the other requests and the tasks go on.
LEMMA TabTakes ==
    ASSUME RowsInv, RowsInv', SubmittedOnce, GoesOn, NEW t \in Tabs,
           tab'[t].pc # "idle" => TabGood(t)',
           \A u \in Tabs \ {t} : tab'[u] = tab[u],
           \A u \in Tabs \ {t} : tab[u].pc = "reading" =>
              ans'[tab[u].s][tab[u].q].text = ans[tab[u].s][tab[u].q].text,
           UNCHANGED wk
    PROVE  SubmittedOnce'
<1>1. \A s \in Sessions, q \in Questions : AnswerGood(s, q)'
  BY AnswersGoOn
<1>2. \A u \in Tabs \ {t} : tab'[u].pc # "idle" => TabGood(u)'
  BY TabGoesOn
<1>3. \A w \in Workers : wk'[w].pc # "idle" => TaskGood(w)'
  BY TaskGoesOn
<1>4. \A s \in Sessions : sess'[s].status = "completed" => Answered(s)'
  BY CompletedGoesOn
<1>. QED  BY <1>1, <1>2, <1>3, <1>4 DEF SubmittedOnce

LEMMA BeginSubmitted ==
    ASSUME RowsInv, RowsInv', SubmittedOnce, NEW t \in Tabs, NEW s \in Sessions,
           NEW q \in Questions, SubmitBegin(t, s, q)
    PROVE  SubmittedOnce'
<1>1. PICK row \in TabRows : row = [pc |-> "reading", s |-> s, q |-> q,
                                    row |-> ans[s][q].status # "absent",
                                    status |-> sess[s].status]
  BY ReadingRow DEF RowsInv
<1>2. /\ tab' = [tab EXCEPT ![t] = row]
      /\ UNCHANGED << sess, ans, queue, wk >>
      /\ There(sess[s]) /\ q <= sess[s].count /\ ans[s][q].text = 0
  BY <1>1 DEF SubmitBegin, rows, Admitted, Present, There
<1>3. tab'[t] = row /\ \A u \in Tabs \ {t} : tab'[u] = tab[u]
  BY <1>2 DEF RowsInv, Typed
<1>4. TabGood(t)'
  <2>1. tab'[t].pc = "reading" /\ tab'[t].s = s /\ tab'[t].q = q
    BY <1>1, <1>3
  <2>2. CASE ans[s][q].status # "absent"
    BY <1>2, <2>1, <2>2 DEF TabGood, There
  <2>3. CASE ans[s][q].status = "absent"
    <3>1. row.row = (ans[s][q].status # "absent")
      BY <1>1
    <3>2. row.row = FALSE
      BY <2>3, <3>1
    <3>3. ~ tab'[t].row
      BY <1>3, <3>2
    <3>. QED  BY <1>2, <2>1, <3>3 DEF TabGood, There
  <2>. QED  BY <2>2, <2>3
<1>5. GoesOn
  BY <1>2, SameGoesOn, NoNewMessages DEF GoesOn
<1>. QED  BY <1>2, <1>3, <1>4, <1>5, TabTakes

LEMMA CommitSubmitted ==
    ASSUME RowsInv, RowsInv', SubmittedOnce, SubmissionsApart, NEW t \in Tabs, SubmitCommit(t)
    PROVE  SubmittedOnce'
<1>0. PICK s \in Sessions, q \in Questions : s = tab[t].s /\ q = tab[t].q
  BY DEF RowsInv, Placed, SubmitCommit
<1>1. /\ Typed /\ ans' \in [Sessions -> [Questions -> AnswerRows]]
      /\ tab[t] \in TabRows
  BY DEF RowsInv, Typed
<1>2. /\ There(sess[s]) /\ q <= sess[s].count /\ ans[s][q].text = 0
      /\ tab[t].row => ans[s][q].status # "absent"
      /\ sess[s].status # "absent" /\ tab[t].pc = "reading"
      /\ tab[t].row \/ ans[s][q].status = "absent"
      /\ UNCHANGED << queue, wk >>
  BY <1>0 DEF SubmitCommit, Present, There, SubmittedOnce, TabGood
<1>3. /\ \A x \in Sessions, p \in Questions : x # s \/ p # q => ans'[x][p] = ans[x][p]
      /\ ans'[s][q].text = 1
      /\ \/ /\ ans'[s][q].status = "evaluated" /\ ans'[s][q].graded = 1
            /\ tab' = [tab EXCEPT ![t] = IdleTab]
         \/ /\ ans'[s][q].status = IF tab[t].row THEN ans[s][q].status ELSE "pending"
            /\ ans'[s][q].graded = ans[s][q].graded
            /\ tab' = [tab EXCEPT ![t].pc = "publishing"]
  <2>1. tab[t].s \in Sessions /\ tab[t].q \in Questions
    BY <1>0
  <2>2. /\ \A x \in Sessions, p \in Questions :
             x # tab[t].s \/ p # tab[t].q => ans'[x][p] = ans[x][p]
        /\ ans'[tab[t].s][tab[t].q].text = ans[tab[t].s][tab[t].q].text + 1
        /\ \/ /\ ans'[tab[t].s][tab[t].q].status = "evaluated"
              /\ ans'[tab[t].s][tab[t].q].graded = ans[tab[t].s][tab[t].q].text + 1
              /\ tab' = [tab EXCEPT ![t] = IdleTab]
           \/ /\ ans'[tab[t].s][tab[t].q].status =
                    IF tab[t].row THEN ans[tab[t].s][tab[t].q].status ELSE "pending"
              /\ ans'[tab[t].s][tab[t].q].graded = ans[tab[t].s][tab[t].q].graded
              /\ tab' = [tab EXCEPT ![t].pc = "publishing"]
    BY <1>1, <2>1, SubmittedSet
  <2>. QED  BY <1>0, <1>2, <2>2
<1>4. ans[s][q].status # "evaluated"
  BY <1>2 DEF SubmittedOnce, AnswerGood
<1>5. AnswerGoesOn(s, q)
  BY <1>2, <1>3, <1>4 DEF AnswerGoesOn
<1>6. ~ Answered(s)
  BY <1>2 DEF Answered
<1>7. /\ sess'[s].cand = sess[s].cand /\ sess'[s].count = sess[s].count /\ There(sess'[s])
      /\ sess'[s].status = "completed" => sess[s].status = "completed"
      /\ \A x \in Sessions \ {s} : sess'[x] = sess[x]
  <2>1. Present(s) /\ Begun(s, tab[t].status)
    BY <1>0 DEF SubmitCommit
  <2>. QED  BY <1>1, <1>2, <2>1, BegunSet DEF There
<1>8. GoesOn
  BY <1>1, <1>2, <1>3, <1>5, <1>6, <1>7, OneAnswerGoesOn, NoNewMessages DEF GoesOn
<1>9. /\ tab'[t].pc # "idle" => tab'[t].pc = "publishing" /\ tab'[t].s = s /\ tab'[t].q = q
      /\ \A u \in Tabs \ {t} : tab'[u] = tab[u]
  BY <1>0, <1>1, <1>3 DEF RowsInv, Typed, IdleTab, TabRows
<1>10. tab'[t].pc # "idle" => TabGood(t)'
  BY <1>2, <1>3, <1>7, <1>9 DEF TabGood, There
<1>11. ASSUME NEW u \in Tabs \ {t}, tab[u].pc = "reading"
       PROVE  ans'[tab[u].s][tab[u].q].text = ans[tab[u].s][tab[u].q].text
  <2>1. PICK x \in Sessions, p \in Questions : x = tab[u].s /\ p = tab[u].q
    BY <1>11 DEF RowsInv, Placed
  <2>2. x # s \/ p # q
    BY <1>0, <1>2, <1>11, <2>1 DEF SubmissionsApart
  <2>. QED  BY <1>3, <2>1, <2>2
<1>. QED  BY <1>2, <1>8, <1>9, <1>10, <1>11, TabTakes

LEMMA TabSubmitted ==
    ASSUME RowsInv, RowsInv', SubmittedOnce, NEW t \in Tabs,
           SubmitConflict(t) \/ Publish(t) \/ PublishFails(t) \/ RequestDies(t)
    PROVE  SubmittedOnce'
<1>0. /\ Typed /\ ans' \in [Sessions -> [Questions -> AnswerRows]]
      /\ tab \in [Tabs -> TabRows] /\ queue \in [Sessions -> [Questions -> Nat]]
  BY DEF RowsInv, Typed
<1>1. tab' = [tab EXCEPT ![t] = IdleTab] /\ UNCHANGED << sess, wk >>
  BY DEF SubmitConflict, Publish, PublishFails, RequestDies, rows
<1>2. tab'[t].pc = "idle" /\ \A u \in Tabs \ {t} : tab'[u] = tab[u]
  BY <1>0, <1>1 DEF IdleTab
<1>3. CASE SubmitConflict(t) \/ RequestDies(t)
  <2>1. UNCHANGED << ans, queue >>
    BY <1>3 DEF SubmitConflict, RequestDies, rows
  <2>2. GoesOn
    BY <1>1, <2>1, SameGoesOn, NoNewMessages DEF GoesOn
  <2>. QED  BY <1>1, <1>2, <2>1, <2>2, TabTakes
<1>4. CASE Publish(t)
  <2>1. PICK s \in Sessions, q \in Questions : s = tab[t].s /\ q = tab[t].q
    BY <1>4 DEF RowsInv, Placed, Publish
  <2>2. sess[s].status # "absent" /\ (There(sess[s]) => ans[s][q].text = 1)
    BY <1>4, <2>1 DEF Publish, SubmittedOnce, TabGood
  <2>3. ans' = ans /\ queue' = [queue EXCEPT ![s][q] = @ + 1]
    BY <1>4, <2>1 DEF Publish, rows
  <2>4. MessagesGoOn
    BY <1>0, <2>2, <2>3 DEF MessagesGoOn
  <2>5. GoesOn
    BY <1>1, <2>3, <2>4, SameGoesOn DEF GoesOn
  <2>. QED  BY <1>1, <1>2, <2>3, <2>5, TabTakes
<1>5. CASE PublishFails(t)
  <2>1. PICK s \in Sessions, q \in Questions : s = tab[t].s /\ q = tab[t].q
    BY <1>5 DEF RowsInv, Placed, PublishFails
  <2>2. PICK status \in AnswerStatuses :
           /\ ans' = [ans EXCEPT ![s][q].status = status]
           /\ status = IF ans[s][q].status = "absent" THEN "absent" ELSE "failed"
    <3>1. ans' = [ans EXCEPT ![s][q].status =
                     IF ans[s][q].status = "absent" THEN ans[s][q].status ELSE "failed"]
      BY <1>0, <1>5, <2>1 DEF PublishFails, Typed
    <3>. QED  BY <3>1 DEF AnswerStatuses
  <2>3. /\ ans'[s][q].status = status /\ ans'[s][q].text = ans[s][q].text
        /\ \A x \in Sessions, p \in Questions : x # s \/ p # q => ans'[x][p] = ans[x][p]
    BY <1>0, <2>2, AnswerStatusSet
  <2>4. queue' = queue
    BY <1>5 DEF PublishFails
  <2>5. \A x \in Sessions : SessionGoesOn(x)
    <3>1. CASE There(sess[s])
      <4>1. AnswerGoesOn(s, q)
        BY <2>2, <2>3 DEF AnswerGoesOn
      <4>. QED  BY <1>0, <1>1, <2>3, <3>1, <4>1, OneAnswerGoesOn
    <3>2. CASE ~ There(sess[s])
      <4>1. ans[s][q].status = "absent"
        BY <3>2 DEF SubmittedOnce, AnswerGood
      <4>2. ans[s][q] \in AnswerRows
        BY <1>0 DEF Typed
      <4>3. [ans[s][q] EXCEPT !.status = "absent"] = ans[s][q]
        BY <4>1, <4>2 DEF AnswerRows
      <4>4. ans' = ans
        BY <1>0, <2>2, <4>1, <4>3 DEF Typed
      <4>. QED  BY <1>1, <4>4, SameGoesOn
    <3>. QED  BY <3>1, <3>2
  <2>6. GoesOn
    BY <2>4, <2>5, NoNewMessages DEF GoesOn
  <2>7. ASSUME NEW u \in Tabs \ {t}, tab[u].pc = "reading"
        PROVE  ans'[tab[u].s][tab[u].q].text = ans[tab[u].s][tab[u].q].text
    <3>1. PICK x \in Sessions, p \in Questions : x = tab[u].s /\ p = tab[u].q
      BY <2>7 DEF RowsInv, Placed
    <3>. QED  BY <2>3, <3>1
  <2>. QED  BY <1>1, <1>2, <2>6, <2>7, TabTakes
<1>. QED  BY <1>3, <1>4, <1>5

(* The workers. *)

\* A worker takes up one answer; the other tasks and the requests go on.
LEMMA TaskTakes ==
    ASSUME RowsInv, RowsInv', SubmittedOnce, GoesOn, NEW w \in Workers,
           wk'[w].pc # "idle" => TaskGood(w)',
           \A v \in Workers \ {w} : wk'[v] = wk[v],
           \A t \in Tabs : tab[t].pc = "reading" =>
              ans'[tab[t].s][tab[t].q].text = ans[tab[t].s][tab[t].q].text,
           UNCHANGED tab
    PROVE  SubmittedOnce'
<1>1. \A s \in Sessions, q \in Questions : AnswerGood(s, q)'
  BY AnswersGoOn
<1>2. \A t \in Tabs : tab'[t].pc # "idle" => TabGood(t)'
  BY TabGoesOn
<1>3. \A v \in Workers \ {w} : wk'[v].pc # "idle" => TaskGood(v)'
  BY TaskGoesOn
<1>4. \A s \in Sessions : sess'[s].status = "completed" => Answered(s)'
  BY CompletedGoesOn
<1>. QED  BY <1>1, <1>2, <1>3, <1>4 DEF SubmittedOnce

\* An answer's status changes, and nothing else of it.
LEMMA StatusGoesOn ==
    ASSUME RowsInv, RowsInv', SubmittedOnce, NEW s \in Sessions, NEW q \in Questions,
           There(sess[s]), sess' = sess, ans'[s][q].text = ans[s][q].text,
           ans[s][q].status # "absent", ans'[s][q].status # "absent",
           ans'[s][q].status = "evaluated" => ans'[s][q].text = 1 /\ ans'[s][q].graded = 1,
           \A x \in Sessions, p \in Questions : x # s \/ p # q => ans'[x][p] = ans[x][p]
    PROVE  /\ \A x \in Sessions : SessionGoesOn(x)
           /\ \A t \in Tabs : tab[t].pc = "reading" =>
                 ans'[tab[t].s][tab[t].q].text = ans[tab[t].s][tab[t].q].text
<1>1. AnswerGoesOn(s, q)
  BY DEF AnswerGoesOn
<1>2. ans' \in [Sessions -> [Questions -> AnswerRows]]
  BY DEF RowsInv, Typed
<1>3. \A x \in Sessions : SessionGoesOn(x)
  BY <1>1, <1>2, OneAnswerGoesOn
<1>4. ASSUME NEW t \in Tabs, tab[t].pc = "reading"
      PROVE  ans'[tab[t].s][tab[t].q].text = ans[tab[t].s][tab[t].q].text
  <2>1. PICK x \in Sessions, p \in Questions : x = tab[t].s /\ p = tab[t].q
    BY <1>4 DEF RowsInv, Placed
  <2>2. ans'[x][p].text = ans[x][p].text
    OBVIOUS
  <2>. QED  BY <2>1, <2>2
<1>. QED  BY <1>3, <1>4

LEMMA ReceiveSubmitted ==
    ASSUME RowsInv, RowsInv', SubmittedOnce, NEW w \in Workers, NEW s \in Sessions,
           NEW q \in Questions, Receive(w, s, q)
    PROVE  SubmittedOnce'
<1>0. Typed /\ queue \in [Sessions -> [Questions -> Nat]] /\ wk \in [Workers -> WorkerRows]
  BY DEF RowsInv, Typed
<1>1. /\ queue[s][q] > 0 /\ queue' = [queue EXCEPT ![s][q] = @ - 1]
      /\ UNCHANGED << sess, tab >>
  BY DEF Receive
<1>2. MessagesGoOn
  BY <1>0, <1>1 DEF MessagesGoOn
<1>3. CASE UNCHANGED << ans, wk >>
  <2>1. GoesOn
    BY <1>1, <1>2, <1>3, SameGoesOn DEF GoesOn
  <2>. QED  BY <1>1, <1>3, <2>1, NothingTaken
<1>4. CASE ~ UNCHANGED << ans, wk >>
  <2>1. /\ ans[s][q].status \notin {"absent", "evaluated"}
        /\ ans' = [ans EXCEPT ![s][q].status = "processing"]
        /\ wk' = [wk EXCEPT ![w] = Received(s, q)]
    BY <1>4 DEF Receive, Received
  <2>2. There(sess[s]) /\ ans[s][q].text = 1
    BY <1>1, <2>1 DEF SubmittedOnce, AnswerGood
  <2>3. /\ ans'[s][q].status = "processing" /\ ans'[s][q].text = ans[s][q].text
        /\ \A x \in Sessions, p \in Questions : x # s \/ p # q => ans'[x][p] = ans[x][p]
    BY <1>0, <2>1, AnswerStatusSet DEF AnswerStatuses
  <2>4. /\ \A x \in Sessions : SessionGoesOn(x)
        /\ \A t \in Tabs : tab[t].pc = "reading" =>
              ans'[tab[t].s][tab[t].q].text = ans[tab[t].s][tab[t].q].text
    BY <1>1, <2>1, <2>2, <2>3, StatusGoesOn
  <2>5. /\ wk'[w] = Received(s, q) /\ \A v \in Workers \ {w} : wk'[v] = wk[v]
    BY <1>0, <2>1
  <2>6. TaskGood(w)'
    <3>1. /\ wk'[w].pc = "reading" /\ wk'[w].s = s /\ wk'[w].q = q /\ wk'[w].text = 1
      BY <1>0, <2>2, <2>5, ReceivedRow
    <3>. QED  BY <1>1, <2>2, <2>3, <3>1 DEF TaskGood, There
  <2>7. GoesOn
    BY <1>2, <2>4 DEF GoesOn
  <2>. QED  BY <1>1, <2>4, <2>5, <2>6, <2>7, TaskTakes
<1>. QED  BY <1>3, <1>4

LEMMA ConsultSubmitted ==
    ASSUME RowsInv, RowsInv', SubmittedOnce, NEW w \in Workers, Consult(w)
    PROVE  SubmittedOnce'
<1>0. PICK s \in Sessions, q \in Questions : s = wk[w].s /\ q = wk[w].q
  BY DEF RowsInv, Placed, Consult
<1>1. /\ Present(wk[w].s) /\ wk[w].pc = "reading" /\ UNCHANGED << sess, ans, queue, tab >>
  BY DEF Consult, rows
<1>2. /\ wk'[w].pc = "grading" /\ wk'[w].s = s /\ wk'[w].q = q /\ wk'[w].text = wk[w].text
      /\ wk'[w].sess = sess[s] /\ \A v \in Workers \ {w} : wk'[v] = wk[v]
  <2>1. wk' = [wk EXCEPT ![w] = [wk[w] EXCEPT !.pc = "grading",
                                              !.cand = cand[sess[wk[w].s].cand],
                                              !.sess = sess[wk[w].s],
                                              !.job = jobs[sess[wk[w].s].job]]]
    BY DEF Consult
  <2>2. wk \in [Workers -> WorkerRows] /\ wk[w] \in WorkerRows
    BY DEF RowsInv, Typed
  <2>. QED  BY <1>0, <2>1, <2>2 DEF WorkerRows
<1>3. TaskGood(w) /\ (sess[s].status = "completed" => Answered(s))
  BY <1>1 DEF SubmittedOnce
<1>4. Answered(s) => Answered(s)'
  BY <1>1 DEF Answered
<1>5. TaskGood(w)'
  BY <1>0, <1>1, <1>2, <1>3, <1>4 DEF TaskGood, There
<1>6. GoesOn
  BY <1>1, SameGoesOn, NoNewMessages DEF GoesOn
<1>. QED  BY <1>1, <1>2, <1>5, <1>6, TaskTakes

LEMMA GradeSubmitted ==
    ASSUME RowsInv, RowsInv', SubmittedOnce, NEW w \in Workers,
           Grade(w) \/ GradeFails(w) \/ WorkerDies(w)
    PROVE  SubmittedOnce'
<1>0. /\ Typed /\ wk \in [Workers -> WorkerRows]
      /\ ans' \in [Sessions -> [Questions -> AnswerRows]]
  BY DEF RowsInv, Typed
<1>1. PICK s \in Sessions, q \in Questions : s = wk[w].s /\ q = wk[w].q
  BY DEF RowsInv, Placed, Grade, GradeFails, WorkerDies
<1>2. /\ wk' = [wk EXCEPT ![w] = IdleWorker] /\ UNCHANGED << sess, queue, tab >>
      /\ TaskGood(w)
  BY DEF Grade, GradeFails, WorkerDies, rows, SubmittedOnce
<1>3. wk'[w].pc = "idle" /\ \A v \in Workers \ {w} : wk'[v] = wk[v]
  BY <1>0, <1>2 DEF IdleWorker
<1>4. CASE UNCHANGED ans
  <2>1. GoesOn
    BY <1>2, <1>4, SameGoesOn, NoNewMessages DEF GoesOn
  <2>. QED  BY <1>2, <1>3, <1>4, <2>1, TaskTakes
<1>5. CASE ~ UNCHANGED ans
  <2>1. There(sess[s]) /\ wk[w].text = 1
    BY <1>1, <1>2, <1>5 DEF Grade, GradeFails, WorkerDies, rows, Present, There, TaskGood
  <2>2. ans[s][q].text = 1 /\ ans[s][q].status # "absent"
    <3>1. ans[s][q].text = 1
      BY <1>1, <1>2, <2>1 DEF TaskGood
    <3>. QED  BY <3>1 DEF SubmittedOnce, AnswerGood
  <2>3. /\ ans'[s][q].text = ans[s][q].text
        /\ ans'[s][q].status # "absent"
        /\ ans'[s][q].status = "evaluated" => ans'[s][q].text = 1 /\ ans'[s][q].graded = 1
        /\ \A x \in Sessions, p \in Questions : x # s \/ p # q => ans'[x][p] = ans[x][p]
    <3>1. CASE Grade(w)
      <4>1. ans' = [ans EXCEPT ![s][q].status = "evaluated", ![s][q].graded = 1]
        BY <1>1, <2>1, <3>1 DEF Grade
      <4>. QED  BY <1>0, <2>2, <4>1, GradedSet
    <3>2. CASE GradeFails(w)
      <4>1. ans' = [ans EXCEPT ![s][q].status = "failed"]
        BY <1>1, <1>5, <3>2 DEF GradeFails
      <4>. QED  BY <1>0, <4>1, AnswerStatusSet DEF AnswerStatuses
    <3>3. CASE WorkerDies(w)
      BY <1>5, <3>3 DEF WorkerDies, rows
    <3>. QED  BY <3>1, <3>2, <3>3
  <2>4. /\ \A x \in Sessions : SessionGoesOn(x)
        /\ \A t \in Tabs : tab[t].pc = "reading" =>
              ans'[tab[t].s][tab[t].q].text = ans[tab[t].s][tab[t].q].text
    BY <1>2, <2>1, <2>2, <2>3, StatusGoesOn
  <2>5. GoesOn
    BY <1>2, <2>4, NoNewMessages DEF GoesOn
  <2>. QED  BY <1>2, <1>3, <2>4, <2>5, TaskTakes
<1>. QED  BY <1>4, <1>5

LEMMA StepSubmitted ==
    RowsInv /\ SubmittedOnce /\ SubmissionsApart /\ [Next]_vars => SubmittedOnce'
<1>. SUFFICES ASSUME RowsInv, SubmittedOnce, SubmissionsApart, [Next]_vars PROVE SubmittedOnce'
  OBVIOUS
<1>0. RowsInv'
  BY StepRows
<1>1. CASE UNCHANGED vars
  BY <1>1, SubmittedOnceKept DEF vars
<1>2. CASE Next
  <2>1. ASSUME NEW j \in Jobs, CreateJob(j) \/ UpdateJob(j) PROVE SubmittedOnce'
    BY <2>1, SubmittedOnceKept DEF CreateJob, UpdateJob
  <2>2. ASSUME NEW c \in Candidates, NEW j \in Jobs, CreateCandidate(c, j) PROVE SubmittedOnce'
    BY <2>2, SubmittedOnceKept DEF CreateCandidate
  <2>3. ASSUME NEW c \in Candidates,
               Reject(c) \/ Archive(c) \/ Shortlist(c) \/ Accept(c) \/ Restore(c)
        PROVE  SubmittedOnce'
    BY <2>3, SubmittedOnceKept DEF Reject, Archive, Shortlist, Accept, Decide, Restore
  <2>4. ASSUME NEW C \in SUBSET Candidates, BulkArchive(C) PROVE SubmittedOnce'
    BY <2>4, SubmittedOnceKept DEF BulkArchive
  <2>5. ASSUME NEW h \in Staff, NEW c \in Candidates, NEW k \in Codes, ConvertBegin(h, c, k)
        PROVE  SubmittedOnce'
    BY <2>5, SubmittedOnceKept DEF ConvertBegin
  <2>6. ASSUME NEW h \in Staff, ConvertCommit(h) \/ ConvertFails(h) PROVE SubmittedOnce'
    BY <2>6, SubmittedOnceKept DEF ConvertCommit, ConvertFails, rows
  <2>7. ASSUME NEW c \in Candidates, TimePasses(c) PROVE SubmittedOnce'
    BY <2>7, SubmittedOnceKept DEF TimePasses
  <2>8. ASSUME NEW w \in Workers, WorkerStep(w) \/ WorkerDies(w) PROVE SubmittedOnce'
    BY <1>0, <2>8, ReceiveSubmitted, ConsultSubmitted, GradeSubmitted DEF WorkerStep
  <2>. QED  BY <1>0, <1>2, <2>1, <2>2, <2>3, <2>4, <2>5, <2>6, <2>7, <2>8, InviteSubmitted,
               PurgeSubmitted, PortalSubmitted, AnswerSubmitted, BeginSubmitted,
               CommitSubmitted, TabSubmitted
            DEF Next
<1>. QED  BY <1>1, <1>2

----------------------------------------------------------------------------
(* The evidence of an evaluation. *)

Evidence(c) ==
    \E s \in Sessions :
        /\ sess[s].cand = c
        /\ \/ sess'[s].status = "expired"
           \/ /\ sess'[s].status = "completed"
              /\ sess[s].count > 0
              /\ \A q \in 1..sess[s].count : ans'[s][q].status \in Terminal

EvaluatedWithEvidence ==
    \A c \in Candidates :
        cand[c].status # "evaluated" /\ cand'[c].status = "evaluated" => Evidence(c)

\* A candidate that is ready has a completed session with every answer settled.
LEMMA ReadyHasEvidence ==
    ASSUME NEW c, NEW me, NEW S, NEW A, NEW J, NEW T, Ready(c, me, S, A, J, T),
           \A s \in Sessions : S[s].count \in QuestionCounts \cup {0},
           \A s \in Sessions : S[s].cand = c /\ S[s].status = "completed" =>
              \A q \in Questions : q <= S[s].count => A[s][q].status # "absent"
    PROVE  \E s \in Sessions :
              /\ S[s].cand = c /\ S[s].status = "completed" /\ S[s].count > 0
              /\ \A q \in 1..S[s].count : A[s][q].status \in Terminal
<1> DEFINE heard == Heard(c, S)
           stored == {p \in heard \X Questions : A[p[1]][p[2]].status # "absent"}
           expected == {p \in heard \X Questions : p[2] <= S[p[1]].count}
<1>1. expected # {} /\ \A p \in stored : A[p[1]][p[2]].status \in Terminal
  BY DEF Ready
<1>2. PICK p \in expected : TRUE
  BY <1>1
<1>3. PICK s \in heard, q \in Questions : p = << s, q >> /\ q <= S[s].count
  BY <1>2
<1>4. s \in Sessions /\ S[s].cand = c /\ S[s].status = "completed"
  BY <1>3 DEF Heard
<1>5. S[s].count \in Nat /\ q \in Nat \ {0}
  <2>1. \A n \in QuestionCounts \cup {0} : n \in Nat
    BY InterviewAssumption
  <2>2. \A x \in Questions : x \in Nat \ {0}
    BY InterviewAssumption
  <2>3. S[s].count \in Nat
    BY <1>4, <2>1
  <2>4. q \in Nat \ {0}
    BY <1>3, <2>2
  <2>. QED  BY <2>3, <2>4
<1>6. S[s].count > 0
  BY <1>3, <1>5
<1>7. ASSUME NEW x \in 1..S[s].count PROVE A[s][x].status \in Terminal
  <2>1. S[s].count \in QuestionCounts
    BY <1>4, <1>6
  <2>2. x \in Questions /\ x <= S[s].count
    BY <1>5, <2>1, InterviewAssumption
  <2>3. << s, x >> \in stored
    BY <1>3, <1>4, <2>2
  <2>4. A[<< s, x >>[1]][<< s, x >>[2]].status \in Terminal
    BY <1>1, <2>3
  <2>. QED  BY <2>4
<1>. QED  BY <1>4, <1>6, <1>7

\* Steps that evaluate nobody.
LEMMA NobodyEvaluated ==
    ASSUME \A c \in Candidates : cand'[c].status = "evaluated" => cand[c].status = "evaluated"
    PROVE  EvaluatedWithEvidence
BY DEF EvaluatedWithEvidence

LEMMA HrEvaluatesNobody ==
    ASSUME RowsInv, NEW c \in Candidates,
           \/ \E j \in Jobs : CreateCandidate(c, j) \/ \E s \in Sessions : Register(c, j, s)
           \/ \E to \in {"rejected", "archived", "shortlisted", "accepted"} : Decide(c, to)
           \/ Restore(c) \/ TimePasses(c)
           \/ \E s \in Sessions : Invite(c, s) \/ Notify(c, s) \/ BulkNotify(c, s)
    PROVE  EvaluatedWithEvidence
<1>0. cand \in [Candidates -> CandidateRow] /\ cand[c] \in CandidateRow
  BY DEF RowsInv, Typed
<1>1. PICK row : /\ cand' = [cand EXCEPT ![c] = row]
                 /\ row.status = "evaluated" => cand[c].status = "evaluated"
  <2>1. ASSUME NEW to \in {"rejected", "archived", "shortlisted", "accepted", "interviewing"},
               Transition(c, to)
        PROVE  \E row : /\ cand' = [cand EXCEPT ![c] = row]
                        /\ row.status = "evaluated" => cand[c].status = "evaluated"
    <3> DEFINE row == [cand[c] EXCEPT !.status = to,
                                      !.old = IF to = "archived" THEN FALSE ELSE @,
                                      !.done = IF to = "accepted" /\ @ = "no" THEN "cooling"
                                               ELSE @]
    <3>1. cand' = [cand EXCEPT ![c] = row]
      BY <2>1 DEF Transition
    <3>2. row.status = to
      BY <1>0 DEF CandidateRow
    <3>. HIDE DEF row
    <3>. QED  BY <3>1, <3>2
  <2>2. ASSUME SetStatus(c, "interviewing")
        PROVE  \E row : /\ cand' = [cand EXCEPT ![c] = row]
                        /\ row.status = "evaluated" => cand[c].status = "evaluated"
    <3>1. cand' = [cand EXCEPT ![c] = [cand[c] EXCEPT !.status = "interviewing"]]
      BY <2>2 DEF SetStatus
    <3>2. [cand[c] EXCEPT !.status = "interviewing"].status = "interviewing"
      BY <1>0 DEF CandidateRow
    <3>. QED  BY <3>1, <3>2
  <2>3. ASSUME UNCHANGED cand
        PROVE  \E row : /\ cand' = [cand EXCEPT ![c] = row]
                        /\ row.status = "evaluated" => cand[c].status = "evaluated"
    <3>1. cand' = [cand EXCEPT ![c] = cand[c]]
      BY <1>0, <2>3
    <3>. QED  BY <3>1
  <2>4. ASSUME NEW j \in Jobs, cand' = [cand EXCEPT ![c] = NewRow(j)]
        PROVE  \E row : /\ cand' = [cand EXCEPT ![c] = row]
                        /\ row.status = "evaluated" => cand[c].status = "evaluated"
    <3>1. NewRow(j).status = "applied"
      BY DEF NewRow, NoCandidate
    <3>. QED  BY <2>4, <3>1
  <2>5. ASSUME NEW j \in Jobs,
               cand' = [cand EXCEPT ![c] = [NewRow(j) EXCEPT !.employee = cand[c].employee]]
        PROVE  \E row : /\ cand' = [cand EXCEPT ![c] = row]
                        /\ row.status = "evaluated" => cand[c].status = "evaluated"
    <3>1. [NewRow(j) EXCEPT !.employee = cand[c].employee].status = "applied"
      BY DEF NewRow, NoCandidate
    <3>. QED  BY <2>5, <3>1
  <2>6. ASSUME Restore(c)
        PROVE  \E row : /\ cand' = [cand EXCEPT ![c] = row]
                        /\ row.status = "evaluated" => cand[c].status = "evaluated"
    <3>1. cand' = [cand EXCEPT ![c] = [cand[c] EXCEPT !.status = "applied", !.old = FALSE]]
      BY <2>6 DEF Restore
    <3>2. [cand[c] EXCEPT !.status = "applied", !.old = FALSE].status = "applied"
      BY <1>0 DEF CandidateRow
    <3>. QED  BY <3>1, <3>2
  <2>7. ASSUME TimePasses(c)
        PROVE  \E row : /\ cand' = [cand EXCEPT ![c] = row]
                        /\ row.status = "evaluated" => cand[c].status = "evaluated"
    <3>1. /\ [cand[c] EXCEPT !.recent = FALSE].status = cand[c].status
          /\ [cand[c] EXCEPT !.done = "past"].status = cand[c].status
          /\ [cand[c] EXCEPT !.old = TRUE].status = cand[c].status
      BY <1>0 DEF CandidateRow
    <3>2. \/ cand' = [cand EXCEPT ![c] = [cand[c] EXCEPT !.recent = FALSE]]
          \/ cand' = [cand EXCEPT ![c] = [cand[c] EXCEPT !.done = "past"]]
          \/ cand' = [cand EXCEPT ![c] = [cand[c] EXCEPT !.old = TRUE]]
      BY <2>7 DEF TimePasses
    <3>. QED  BY <3>1, <3>2
  <2>8. ASSUME NEW j \in Jobs, NEW s \in Sessions, Register(c, j, s)
        PROVE  \E row : /\ cand' = [cand EXCEPT ![c] = row]
                        /\ row.status = "evaluated" => cand[c].status = "evaluated"
    BY <2>4, <2>5, <2>8 DEF Register, RegisterAgain, RegisterNew
  <2>9. ASSUME NEW j \in Jobs, CreateCandidate(c, j)
        PROVE  \E row : /\ cand' = [cand EXCEPT ![c] = row]
                        /\ row.status = "evaluated" => cand[c].status = "evaluated"
    BY <2>4, <2>9 DEF CreateCandidate
  <2>10. ASSUME NEW s \in Sessions, Invite(c, s) \/ Notify(c, s) \/ BulkNotify(c, s)
         PROVE  \E row : /\ cand' = [cand EXCEPT ![c] = row]
                         /\ row.status = "evaluated" => cand[c].status = "evaluated"
    BY <2>1, <2>2, <2>3, <2>10 DEF Invite, Notify, BulkNotify
  <2>. QED  BY <2>1, <2>6, <2>7, <2>8, <2>9, <2>10 DEF Decide
<1>. QED  BY <1>0, <1>1, NobodyEvaluated

LEMMA OthersEvaluateNobody ==
    ASSUME RowsInv,
           \/ \E C \in SUBSET Candidates : BulkArchive(C)
           \/ \E h \in Staff : ConvertCommit(h)
           \/ Purge
           \/ \E s \in Sessions : Complete(s)
    PROVE  EvaluatedWithEvidence
<1>0. cand \in [Candidates -> CandidateRow] /\ \A c \in Candidates : cand[c] \in CandidateRow
  BY DEF RowsInv, Typed
<1>1. ASSUME NEW C \in SUBSET Candidates, BulkArchive(C) PROVE EvaluatedWithEvidence
  <2>1. \A c \in Candidates :
           [cand[c] EXCEPT !.status = "archived", !.old = FALSE].status = "archived"
    BY <1>0 DEF CandidateRow
  <2>. QED  BY <1>1, <2>1, NobodyEvaluated DEF BulkArchive
<1>2. ASSUME NEW h \in Staff, ConvertCommit(h) PROVE EvaluatedWithEvidence
  <2> DEFINE c == hr[h].cand  row == [cand[c] EXCEPT !.employee = hr[h].code]
  <2>1. cand' = [cand EXCEPT ![c] = row] /\ c \in Candidates
    BY <1>2 DEF ConvertCommit, RowsInv, Placed
  <2>2. row.status = cand[c].status
    BY <1>0, <2>1 DEF CandidateRow
  <2>. HIDE DEF c, row
  <2>. QED  BY <1>0, <2>1, <2>2, NobodyEvaluated
<1>3. ASSUME Purge PROVE EvaluatedWithEvidence
  <2>1. [NoCandidate EXCEPT !.status = "deleted"].status = "deleted"
    BY DEF NoCandidate
  <2>. QED  BY <1>3, <2>1, NobodyEvaluated DEF Purge
<1>4. ASSUME NEW s \in Sessions, Complete(s) PROVE EvaluatedWithEvidence
  <2> DEFINE c == sess[s].cand  row == [cand[c] EXCEPT !.done = "cooling"]
  <2>1. cand' = [cand EXCEPT ![c] = row] /\ Present(s)
    BY <1>4 DEF Complete, Admitted
  <2>2. c \in Candidates
    BY <2>1, OwnerThere
  <2>3. row.status = cand[c].status
    BY <1>0, <2>2 DEF CandidateRow
  <2>. HIDE DEF c, row
  <2>. QED  BY <1>0, <2>1, <2>2, <2>3, NobodyEvaluated
<1>. QED  BY <1>1, <1>2, <1>3, <1>4

\* The status of a session's candidate is written, and evaluated only with evidence.
LEMMA OwnerEvaluated ==
    ASSUME RowsInv, NEW s \in Sessions, Present(s), NEW status, status \in CandidateStatuses,
           SetStatus(sess[s].cand, status),
           status = "evaluated" =>
              cand[sess[s].cand].status = "evaluated" \/ Evidence(sess[s].cand)
    PROVE  EvaluatedWithEvidence
<1>1. sess[s].cand \in Candidates /\ Typed
  BY OwnerThere DEF RowsInv
<1>2. /\ cand'[sess[s].cand].status = status
      /\ \A d \in Candidates \ {sess[s].cand} : cand'[d] = cand[d]
  BY <1>1, StatusSet
<1>. QED  BY <1>1, <1>2 DEF EvaluatedWithEvidence

\* The sessions as the caller sees them, and what they have become.
LEMMA SyncedWithEvidence ==
    ASSUME RowsInv, NEW c, NEW me, NEW S, NEW A, NEW J, NEW T,
           Synced(c, me, S, A, J, T) # me.status,
           \A s \in Sessions : /\ S[s].count \in QuestionCounts \cup {0}
                               /\ S[s].cand = sess[s].cand
                               /\ S[s].count = sess[s].count,
           \A s \in Sessions : S[s].cand = c /\ S[s].status = "completed" =>
              /\ sess'[s].status \in {"completed", "expired"}
              /\ \A q \in Questions : q <= S[s].count => A[s][q].status # "absent",
           ans' = A
    PROVE  Evidence(c)
<1>1. Ready(c, me, S, A, J, T)
  BY DEF Synced
<1>2. PICK s \in Sessions : /\ S[s].cand = c /\ S[s].status = "completed" /\ S[s].count > 0
                            /\ \A q \in 1..S[s].count : A[s][q].status \in Terminal
  BY <1>1, ReadyHasEvidence
<1>. QED  BY <1>2 DEF Evidence

LEMMA CompletedHasAnswers ==
    ASSUME RowsInv, SubmittedOnce, NEW s \in Sessions, Answered(s), NEW q \in Questions,
           q <= sess[s].count
    PROVE  ans[s][q].status # "absent"
<1>1. AnswerGood(s, q) /\ ans[s][q].text = 1
  BY DEF SubmittedOnce, Answered
<1>. QED  BY <1>1 DEF AnswerGood

LEMMA CountTyped ==
    ASSUME RowsInv, NEW s \in Sessions
    PROVE  sess[s].count \in QuestionCounts \cup {0}
BY DEF RowsInv, Typed, SessionRow

LEMMA PortalEvidence ==
    ASSUME RowsInv, RowsInv', SubmittedOnce, NEW s \in Sessions, ExpiredVisit(s) \/ SubmitMcq(s)
    PROVE  EvaluatedWithEvidence
<1>0. Typed /\ cand \in [Candidates -> CandidateRow] /\ sess' \in [Sessions -> SessionRow]
  BY DEF RowsInv, Typed
<1>1. CASE ExpiredVisit(s)
  <2> DEFINE c == sess[s].cand
             status == IF cand[c].status = "interviewing" THEN "evaluated" ELSE cand[c].status
  <2>1. Present(s) /\ sess' = [sess EXCEPT ![s].status = "expired"]
    BY <1>1 DEF ExpiredVisit
  <2>2. c \in Candidates /\ sess'[s].status = "expired"
    BY <1>0, <2>1, OwnerThere, StatusWritten DEF SessionStatuses
  <2>3. status \in CandidateStatuses
    BY <1>0, <2>2 DEF CandidateRow, CandidateStatuses
  <2>4. SetStatus(c, status)
    BY <1>1 DEF ExpiredVisit, SetStatus
  <2>5. Evidence(c)
    BY <2>2 DEF Evidence
  <2>. HIDE DEF status
  <2>. QED  BY <2>1, <2>3, <2>4, <2>5, OwnerEvaluated
<1>2. CASE SubmitMcq(s)
  <2> DEFINE c == sess[s].cand
             status == Synced(c, cand[c], sess', ans, jobs, sess')
  <2>1. Present(s) /\ SetStatus(c, status) /\ ans' = ans
    BY <1>2 DEF SubmitMcq, Admitted
  <2>2. /\ sess'[s].cand = sess[s].cand /\ sess'[s].count = sess[s].count
        /\ sess'[s].status = IF sess[s].status = "invited" THEN "in_progress" ELSE sess[s].status
        /\ \A x \in Sessions \ {s} : sess'[x] = sess[x]
    BY <1>0, <1>2, McqSet
  <2>3. status \in {cand[c].status, "evaluated"}
    BY DEF Synced
  <2>4. c \in Candidates
    BY <2>1, OwnerThere
  <2>5. status \in CandidateStatuses
    BY <1>0, <2>3, <2>4 DEF CandidateRow, CandidateStatuses
  <2>6. ASSUME status # cand[c].status PROVE Evidence(c)
    <3>1. \A x \in Sessions : /\ sess'[x].count \in QuestionCounts \cup {0}
                              /\ sess'[x].cand = sess[x].cand
                              /\ sess'[x].count = sess[x].count
      BY <2>2, CountTyped
    <3>2. ASSUME NEW x \in Sessions, sess'[x].status = "completed"
          PROVE  \A q \in Questions : q <= sess'[x].count => ans[x][q].status # "absent"
      <4>1. sess[x].status = "completed"
        BY <2>2, <3>2
      <4>2. Answered(x)
        BY <4>1 DEF SubmittedOnce
      <4>. QED  BY <3>1, <4>2, CompletedHasAnswers
    <3>3. \A x \in Sessions : sess'[x].cand = c /\ sess'[x].status = "completed" =>
             /\ sess'[x].status \in {"completed", "expired"}
             /\ \A q \in Questions : q <= sess'[x].count => ans[x][q].status # "absent"
      BY <3>2
    <3>. QED  BY <2>1, <2>6, <3>1, <3>3, SyncedWithEvidence
  <2>. HIDE DEF status
  <2>. QED  BY <2>1, <2>5, <2>6, OwnerEvaluated
<1>. QED  BY <1>1, <1>2

\* The copies a worker decides on are old, but not in what the decision needs.
LEMMA GradeEvidence ==
    ASSUME RowsInv, RowsInv', SubmittedOnce, SubmittedOnce', NEW w \in Workers, Grade(w)
    PROVE  EvaluatedWithEvidence
<1>0. /\ Typed /\ cand \in [Candidates -> CandidateRow] /\ sess \in [Sessions -> SessionRow]
      /\ wk[w] \in WorkerRows
  BY DEF RowsInv, Typed
<1>1. PICK s \in Sessions, q \in Questions : s = wk[w].s /\ q = wk[w].q
  BY DEF RowsInv, Placed, Grade
<1> DEFINE c == sess[s].cand
           me == wk[w].cand
           S == [sess EXCEPT ![s] = wk[w].sess]
           A == [ans EXCEPT ![s][q].status = "evaluated", ![s][q].graded = wk[w].text]
           J == [jobs EXCEPT ![wk[w].sess.job] = wk[w].job]
           seen == Synced(c, me, S, A, J, sess)
           status == IF seen # me.status THEN seen ELSE cand[c].status
<1>2. /\ Present(s) /\ ans' = A /\ SetStatus(c, status) /\ sess' = sess
      /\ wk[w].pc = "grading"
  BY <1>1 DEF Grade
<1>3. c \in Candidates
  BY <1>2, OwnerThere
<1>4. status \in CandidateStatuses
  <2>1. seen \in {me.status, "evaluated"}
    BY DEF Synced
  <2>. HIDE DEF seen
  <2>. QED  BY <1>0, <1>3, <2>1 DEF CandidateRow, CandidateStatuses
<1>5. /\ S[s] = wk[w].sess /\ \A x \in Sessions \ {s} : S[x] = sess[x]
  BY <1>0
<1>6. TaskGood(w) /\ There(sess[s]) /\ wk[w].text = 1
  BY <1>1, <1>2 DEF SubmittedOnce, TaskGood, Present, There
<1>7. /\ wk[w].sess.cand = sess[s].cand /\ wk[w].sess.count = sess[s].count
      /\ wk[w].sess.status = "completed" =>
            sess[s].status \in {"completed", "expired"} /\ Answered(s)
  BY <1>1, <1>2, <1>6 DEF TaskGood
<1>8. \A x \in Sessions : S[x].cand = sess[x].cand /\ S[x].count = sess[x].count
  BY <1>5, <1>7
<1>9. ASSUME NEW x \in Sessions, S[x].status = "completed"
      PROVE  /\ sess[x].status \in {"completed", "expired"}
             /\ \A p \in Questions : p <= S[x].count => A[x][p].status # "absent"
  <2>1. sess[x].status \in {"completed", "expired"} /\ Answered(x)
    BY <1>5, <1>7, <1>9 DEF SubmittedOnce
  <2>2. ASSUME NEW p \in Questions, p <= S[x].count PROVE A[x][p].status # "absent"
    <3>1. ans[x][p].status # "absent"
      BY <1>8, <2>1, <2>2, CompletedHasAnswers
    <3>2. \/ ans'[x][p] = ans[x][p]
          \/ ans'[x][p].status = "evaluated"
      <4>1. ans' = [ans EXCEPT ![s][q].status = "evaluated", ![s][q].graded = 1]
        BY <1>2, <1>6
      <4>2. /\ ans'[s][q].status = "evaluated"
            /\ \A y \in Sessions, z \in Questions : y # s \/ z # q => ans'[y][z] = ans[y][z]
        BY <1>0, <4>1, GradedSet
      <4>. QED  BY <4>2
    <3>. QED  BY <1>2, <3>1, <3>2
  <2>. QED  BY <2>1, <2>2
<1>10. ASSUME seen # me.status PROVE Evidence(c)
  <2>1. \A x \in Sessions : S[x].count \in QuestionCounts \cup {0}
    BY <1>8, CountTyped
  <2>2. \A x \in Sessions : S[x].cand = c /\ S[x].status = "completed" =>
           /\ sess'[x].status \in {"completed", "expired"}
           /\ \A p \in Questions : p <= S[x].count => A[x][p].status # "absent"
    BY <1>2, <1>9
  <2>. HIDE DEF S, A, J, me
  <2>. QED  BY <1>2, <1>8, <1>10, <2>1, <2>2, SyncedWithEvidence
<1>11. status = "evaluated" => cand[c].status = "evaluated" \/ Evidence(c)
  BY <1>10
<1>. HIDE DEF status
<1>. QED  BY <1>2, <1>4, <1>11, OwnerEvaluated

LEMMA FailureEvidence ==
    ASSUME RowsInv, RowsInv', SubmittedOnce, NEW w \in Workers, GradeFails(w)
    PROVE  EvaluatedWithEvidence
<1>0. /\ Typed /\ cand \in [Candidates -> CandidateRow] /\ sess \in [Sessions -> SessionRow]
  BY DEF RowsInv, Typed
<1>1. PICK s \in Sessions, q \in Questions : s = wk[w].s /\ q = wk[w].q
  BY DEF RowsInv, Placed, GradeFails
<1>2. CASE ~ Present(s)
  BY <1>1, <1>2, NobodyEvaluated DEF GradeFails
<1>3. CASE Present(s)
  <2> DEFINE c == sess[s].cand
             A == [ans EXCEPT ![s][q].status = "failed"]
             status == Synced(c, cand[c], sess, A, jobs, sess)
  <2>1. ans' = A /\ SetStatus(c, status) /\ sess' = sess
    BY <1>1, <1>3 DEF GradeFails
  <2>2. c \in Candidates
    BY <1>3, OwnerThere
  <2>3. status \in CandidateStatuses
    <3>1. status \in {cand[c].status, "evaluated"}
      BY DEF Synced
    <3>. HIDE DEF status
    <3>. QED  BY <1>0, <2>2, <3>1 DEF CandidateRow, CandidateStatuses
  <2>4. ASSUME NEW x \in Sessions, sess[x].status = "completed"
        PROVE  /\ sess[x].status \in {"completed", "expired"}
               /\ \A p \in Questions : p <= sess[x].count => A[x][p].status # "absent"
    <3>1. Answered(x)
      BY <2>4 DEF SubmittedOnce
    <3>2. ASSUME NEW p \in Questions, p <= sess[x].count PROVE A[x][p].status # "absent"
      <4>1. ans[x][p].status # "absent"
        BY <3>1, <3>2, CompletedHasAnswers
      <4>2. ans'[x][p] = ans[x][p] \/ ans'[x][p].status = "failed"
        BY <1>0, <2>1, AnswerStatusSet DEF AnswerStatuses
      <4>. QED  BY <2>1, <4>1, <4>2
    <3>. QED  BY <2>4, <3>2
  <2>5. ASSUME status # cand[c].status PROVE Evidence(c)
    <3>1. \A x \in Sessions : sess[x].count \in QuestionCounts \cup {0}
      BY CountTyped
    <3>2. \A x \in Sessions : sess[x].cand = c /\ sess[x].status = "completed" =>
             /\ sess'[x].status \in {"completed", "expired"}
             /\ \A p \in Questions : p <= sess[x].count => A[x][p].status # "absent"
      BY <2>1, <2>4
    <3>. HIDE DEF A
    <3>. QED  BY <2>1, <2>5, <3>1, <3>2, SyncedWithEvidence
  <2>. HIDE DEF status
  <2>. QED  BY <1>3, <2>1, <2>3, <2>5, OwnerEvaluated
<1>. QED  BY <1>2, <1>3

LEMMA StepEvidence ==
    ASSUME RowsInv, SubmittedOnce, SubmissionsApart, [Next]_vars
    PROVE  EvaluatedWithEvidence
<1>0. RowsInv' /\ SubmittedOnce'
  BY StepRows, StepSubmitted
<1>1. CASE UNCHANGED cand
  BY <1>1, NobodyEvaluated
<1>2. CASE Next /\ ~ UNCHANGED cand
  <2>1. ASSUME NEW c \in Candidates,
               Reject(c) \/ Archive(c) \/ Shortlist(c) \/ Accept(c) \/ Restore(c)
        PROVE  EvaluatedWithEvidence
    BY <2>1, HrEvaluatesNobody DEF Reject, Archive, Shortlist, Accept
  <2>2. ASSUME NEW h \in Staff, ConvertCommit(h) \/ ConvertFails(h)
        PROVE  EvaluatedWithEvidence
    BY <1>2, <2>2, OthersEvaluateNobody DEF ConvertFails, rows
  <2>3. ASSUME NEW s \in Sessions,
               SessionExpires(s) \/ ExpiredVisit(s) \/ SubmitMcq(s) \/ Complete(s)
        PROVE  EvaluatedWithEvidence
    BY <1>0, <1>2, <2>3, PortalEvidence, OthersEvaluateNobody DEF SessionExpires
  <2>4. ASSUME NEW w \in Workers, WorkerStep(w) \/ WorkerDies(w)
        PROVE  EvaluatedWithEvidence
    BY <1>0, <1>2, <2>4, GradeEvidence, FailureEvidence
       DEF WorkerStep, WorkerDies, Receive, Consult, rows
  <2>5. ASSUME NEW t \in Tabs,
               \/ SubmitCommit(t) \/ SubmitConflict(t) \/ Publish(t)
               \/ PublishFails(t) \/ RequestDies(t)
        PROVE  EvaluatedWithEvidence
    BY <1>2, <2>5 DEF SubmitCommit, SubmitConflict, Publish, PublishFails, RequestDies, rows
  <2>6. ASSUME NEW s \in Sessions, NEW q \in Questions,
               \/ TimeLimitPasses(s, q) \/ StartQuestion(s, q)
               \/ \E t \in Tabs : SubmitBegin(t, s, q)
        PROVE  EvaluatedWithEvidence
    BY <1>2, <2>6 DEF TimeLimitPasses, StartQuestion, SubmitBegin, rows
  <2>7. ASSUME NEW j \in Jobs, CreateJob(j) \/ UpdateJob(j)
        PROVE  EvaluatedWithEvidence
    BY <1>2, <2>7 DEF CreateJob, UpdateJob
  <2>8. ASSUME NEW h \in Staff, NEW c \in Candidates, NEW k \in Codes, ConvertBegin(h, c, k)
        PROVE  EvaluatedWithEvidence
    BY <1>2, <2>8 DEF ConvertBegin
  <2>. QED  BY <1>2, <2>1, <2>2, <2>3, <2>4, <2>5, <2>6, <2>7, <2>8, HrEvaluatesNobody,
               OthersEvaluateNobody
            DEF Next
<1>. QED  BY <1>1, <1>2 DEF vars

\* A candidate becomes evaluated only when the portal has met its session expired, or when
\* one of its completed interviews has every question answered and settled, for any
\* sessions, workers and copies of theirs from before the grading.
THEOREM EvaluationHasEvidence == Spec /\ []SubmissionsApart => EvaluatedOnEvidence
<1>1. EvaluatedWithEvidence =>
        (\A c \in Candidates :
          cand[c].status # "evaluated" /\ cand'[c].status = "evaluated" =>
              \E s \in Sessions :
                  /\ sess[s].cand = c
                  /\ \/ sess'[s].status = "expired"
                     \/ /\ sess'[s].status = "completed"
                        /\ sess[s].count > 0
                        /\ \A q \in 1..sess[s].count : ans'[s][q].status \in Terminal)
  BY DEF EvaluatedWithEvidence, Evidence
<1>2. RowsInv /\ SubmittedOnce /\ SubmissionsApart /\ [Next]_vars => EvaluatedWithEvidence
  BY StepEvidence
<1>. QED  BY <1>1, <1>2, InitRows, StepRows, InitSubmitted, StepSubmitted, PTL
          DEF Spec, EvaluatedOnEvidence
=============================================================================
