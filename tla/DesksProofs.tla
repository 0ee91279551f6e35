---------------------------- MODULE DesksProofs ----------------------------
(* The record-keeping desks, for any staff, teams, agents, rows, notes and  *)
(* documents.  Each desk has a section: its specification, the invariant    *)
(* that makes its property inductive, and the theorem.                      *)
EXTENDS Directory, TeamRecords, Notes, Personnel, CandidateDocuments, Violations, WrittenTest,
        FiniteSetTheorems, SequenceTheorems, WellFoundedInduction, TLAPS

(* Sets with at most one element. *)

LEMMA AtMostOne ==
    ASSUME NEW S, \A x, y \in S : x = y
    PROVE  /\ IsFiniteSet(S) /\ Cardinality(S) <= 1
           /\ S # {} => Cardinality(S) = 1
           /\ S = {} => Cardinality(S) = 0
<1>1. CASE S = {}
  BY <1>1, FS_EmptySet
<1>2. CASE S # {}
  <2>1. PICK x \in S : TRUE
    BY <1>2
  <2>2. S = {x}
    BY <2>1
  <2>3. IsFiniteSet({x}) /\ Cardinality({x}) = 1
    BY FS_Singleton
  <2>. QED  BY <1>2, <2>2, <2>3
<1>. QED  BY <1>1, <1>2

----------------------------------------------------------------------------
(* Thresholds. *)

ThresholdsSpec == ThresholdsInit /\ [][ThresholdsNext]_thresholdVars

ThresholdRows == Seq([scope : Squads \cup Campaigns, active : BOOLEAN])

ThresholdsInv == thresholds \in ThresholdRows /\ campaigns \subseteq Campaigns /\ OneThresholdInForce

LEMMA StepThresholds == ThresholdsInv /\ [ThresholdsNext]_thresholdVars => ThresholdsInv'
<1>. SUFFICES ASSUME ThresholdsInv, [ThresholdsNext]_thresholdVars PROVE ThresholdsInv'
  OBVIOUS
<1>0. /\ thresholds \in Seq([scope : Squads \cup Campaigns, active : BOOLEAN])
      /\ DOMAIN thresholds = 1..Len(thresholds) /\ Len(thresholds) \in Nat
      /\ \A i \in DOMAIN thresholds : thresholds[i] \in [scope : Squads \cup Campaigns, active : BOOLEAN]
      /\ campaigns \subseteq Campaigns
  <2>1. thresholds \in Seq([scope : Squads \cup Campaigns, active : BOOLEAN])
    BY DEF ThresholdsInv, ThresholdRows
  <2>2. DOMAIN thresholds = 1..Len(thresholds) /\ Len(thresholds) \in Nat
    BY <2>1, LenProperties
  <2>3. \A i \in 1..Len(thresholds) : thresholds[i] \in [scope : Squads \cup Campaigns, active : BOOLEAN]
    BY <2>1, ElementOfSeq
  <2>. QED  BY <2>1, <2>2, <2>3 DEF ThresholdsInv
<1>1. ASSUME NEW c \in Campaigns, CreateCampaign(c) PROVE ThresholdsInv'
  BY <1>1 DEF CreateCampaign, ThresholdsInv, OneThresholdInForce
<1>2. ASSUME NEW c \in Campaigns, DeleteCampaign(c) PROVE ThresholdsInv'
  BY <1>2 DEF DeleteCampaign, ThresholdsInv, OneThresholdInForce
<1>3. ASSUME NEW scope \in Squads \cup campaigns, NEW active \in BOOLEAN, CreateThreshold(scope, active)
      PROVE  ThresholdsInv'
  <2> DEFINE row == [scope |-> scope, active |-> active]
  <2>1. row \in [scope : Squads \cup Campaigns, active : BOOLEAN] /\ row.scope = scope /\ row.active = active
    BY <1>0
  <2>2. thresholds' = Append(thresholds, row) /\ campaigns' = campaigns
    BY <1>3 DEF CreateThreshold
  <2> HIDE DEF row
  <2>3. /\ thresholds' \in ThresholdRows
        /\ DOMAIN thresholds' = 1..(Len(thresholds) + 1)
        /\ \A i \in DOMAIN thresholds : thresholds'[i] = thresholds[i]
        /\ thresholds'[Len(thresholds) + 1] = row
    BY <1>0, <2>1, <2>2, AppendProperties DEF ThresholdRows
  <2>4. active => \A j \in DOMAIN thresholds : thresholds[j].active => thresholds[j].scope # scope
    BY <1>0, <1>3 DEF CreateThreshold, NoOtherInForce
  <2>. QED  BY <1>0, <2>1, <2>2, <2>3, <2>4 DEF ThresholdsInv, OneThresholdInForce
<1>4. ASSUME NEW i \in DOMAIN thresholds, NEW active \in BOOLEAN, SwitchThreshold(i, active)
      PROVE  ThresholdsInv'
  <2> DEFINE row == [thresholds[i] EXCEPT !.active = active]
  <2>1. /\ row \in [scope : Squads \cup Campaigns, active : BOOLEAN]
        /\ row.scope = thresholds[i].scope /\ row.active = active
    BY <1>0
  <2>2. thresholds' = [thresholds EXCEPT ![i] = row] /\ campaigns' = campaigns
    BY <1>4 DEF SwitchThreshold
  <2> HIDE DEF row
  <2>3. /\ thresholds' \in ThresholdRows /\ DOMAIN thresholds' = DOMAIN thresholds
        /\ \A j \in DOMAIN thresholds : thresholds'[j] = IF j = i THEN row ELSE thresholds[j]
    BY <1>0, <2>1, <2>2, ExceptSeq DEF ThresholdRows
  <2>4. active => \A j \in DOMAIN thresholds \ {i} :
                     thresholds[j].active => thresholds[j].scope # thresholds[i].scope
    BY <1>4 DEF SwitchThreshold, MaySwitchOn, NoOtherInForce
  <2>. QED  BY <1>0, <2>1, <2>2, <2>3, <2>4 DEF ThresholdsInv, OneThresholdInForce
<1>5. CASE UNCHANGED thresholdVars
  BY <1>5 DEF thresholdVars, ThresholdsInv, OneThresholdInForce
<1>. QED  BY <1>1, <1>2, <1>3, <1>4, <1>5 DEF ThresholdsNext

\* However many rows and campaigns there are, one threshold is in force for a team or a
\* campaign, and every row's campaign exists.
THEOREM OneThreshold == ThresholdsSpec => []OneThresholdInForce
<1>1. ThresholdsInit => ThresholdsInv
  <2>. SUFFICES ASSUME ThresholdsInit PROVE ThresholdsInv
    OBVIOUS
  <2>1. thresholds \in ThresholdRows
    BY DEF ThresholdsInit, ThresholdRows
  <2>. QED  BY <2>1 DEF ThresholdsInit, ThresholdsInv, OneThresholdInForce
<1>2. ThresholdsInv => OneThresholdInForce
  BY DEF ThresholdsInv
<1>. QED  BY <1>1, <1>2, StepThresholds, PTL DEF ThresholdsSpec

----------------------------------------------------------------------------
(* Notes. *)

NotesSpec == NotesInit /\ [][NotesNext]_notesVars

\* Whoever reads a deleted note is an administrator.
LEMMA DeletedIsForAdmins ==
    ASSUME NEW by, NEW m, CanRead(by, m), m.status = "DELETED"
    PROVE  by \in Admins
BY DEF CanRead

LEMMA StepNotes == OnlyAdminsReviveDeleted /\ [NotesNext]_notesVars => OnlyAdminsReviveDeleted'
<1>. SUFFICES ASSUME OnlyAdminsReviveDeleted, [NotesNext]_notesVars PROVE OnlyAdminsReviveDeleted'
  OBVIOUS
<1>. USE DEF OnlyAdminsReviveDeleted
<1>1. ASSUME NEW by, NEW n, Revives(by, n), notes[n].status = "DELETED" => by \in Admins
      PROVE  revivers' \subseteq Admins
  BY <1>1 DEF Revives
<1>2. ASSUME NEW by \in Writers, NEW m \in Messages, NEW parent \in 0..Len(notes), CreateNote(by, m, parent)
      PROVE  revivers' \subseteq Admins
  BY <1>2 DEF CreateNote
<1>3. ASSUME NEW by \in Writers, NEW m \in Messages, NEW n \in DOMAIN notes, Reply(by, n, m)
      PROVE  revivers' \subseteq Admins
  <2>1. CanRead(by, notes[Root(n)]) /\ Revives(by, Root(n))
    BY <1>3 DEF Reply
  <2>. QED  BY <2>1, <1>1, DeletedIsForAdmins
<1>4. ASSUME NEW by \in Writers, NEW n \in DOMAIN notes, Resolve(by, n)
      PROVE  revivers' \subseteq Admins
  <2>1. CanRead(by, notes[n]) /\ Revives(by, n)
    BY <1>4 DEF Resolve
  <2>. QED  BY <2>1, <1>1, DeletedIsForAdmins
<1>5. ASSUME NEW by \in Writers, NEW n \in DOMAIN notes, Archive(by, n)
      PROVE  revivers' \subseteq Admins
  BY <1>5, <1>1 DEF Archive
<1>6. ASSUME NEW by \in Writers, NEW n \in DOMAIN notes,
             MarkRead(by, n) \/ Delete(by, n) \/ \E status \in Allowed(notes[n].status) : MoveOn(by, n, status)
      PROVE  revivers' \subseteq Admins
  BY <1>6 DEF MarkRead, Delete, MoveOn
<1>7. CASE UNCHANGED notesVars
  BY <1>7 DEF notesVars
<1>. QED  BY <1>2, <1>3, <1>4, <1>5, <1>6, <1>7 DEF NotesNext

\* Over any thread of notes and replies, a deleted note comes back by the hand of an
\* administrator only.
THEOREM AdminsRevive == NotesSpec => []OnlyAdminsReviveDeleted
<1>1. NotesInit => OnlyAdminsReviveDeleted
  BY DEF NotesInit, OnlyAdminsReviveDeleted
<1>. QED  BY <1>1, StepNotes, PTL DEF NotesSpec

----------------------------------------------------------------------------
(* Onboarding. *)

PersonnelSpec == PersonnelInit /\ [][PersonnelNext]_personnelVars

\* What an atomic import may rely on for the rows ahead: no row before them has a claim of
\* theirs, and an employee who has one was added by another request.
AheadOfImport(i) ==
    /\ batch[i].valid /\ ~SeenBefore(i)
    /\ batch[i].claims \cap UNION employees \subseteq others

BatchInv ==
    /\ batch \in [1..BatchSize -> Rows] /\ at \in 1..(BatchSize + 1)
    /\ added \cup failed \cup unsaved = 1..(at - 1)
    /\ import = "received" => failed = {} /\ at = 1
    /\ import = "done" => at = BatchSize + 1
    /\ import = "adding" /\ atomic => \A i \in 1..BatchSize : i >= at => AheadOfImport(i)
    /\ LateRefusalsHaveACause

LEMMA BatchLength == BatchInv => BatchSize \in Nat /\ Len(batch) = BatchSize /\ DOMAIN batch = 1..BatchSize
BY PersonnelAssumption DEF BatchInv

\* The rows ahead lose nothing to a row of their own batch.
LEMMA RowsAhead ==
    ASSUME BatchInv, at \in 1..BatchSize,
           employees' \in {employees, employees \cup {batch[at].claims}}, UNCHANGED << batch, others >>,
           NEW i \in 1..BatchSize, i > at, AheadOfImport(i)
    PROVE  AheadOfImport(i)'
<1>1. at \in 1..(i - 1)
  BY PersonnelAssumption
<1>2. batch[i].claims \cap batch[at].claims = {}
  BY <1>1 DEF AheadOfImport, SeenBefore
<1>3. (batch[i].claims \cap UNION employees \subseteq others)'
  BY <1>2 DEF AheadOfImport
<1>. QED  BY <1>3 DEF AheadOfImport, SeenBefore

LEMMA StepBatch == BatchInv /\ [PersonnelNext]_personnelVars => BatchInv'
<1>. SUFFICES ASSUME BatchInv, [PersonnelNext]_personnelVars PROVE BatchInv'
  OBVIOUS
<1>0. /\ BatchSize \in Nat /\ Len(batch) = BatchSize /\ DOMAIN batch = 1..BatchSize
      /\ at \in 1..(BatchSize + 1)
  BY BatchLength DEF BatchInv
<1>1. CASE Refuse
  BY <1>1 DEF Refuse, outcome, BatchInv, LateRefusalsHaveACause
<1>2. CASE Accept
  <2>1. atomic => \A i \in 1..BatchSize : AheadOfImport(i)'
    BY <1>2, <1>0 DEF Accept, FirstPassPasses, RowPasses, Taken, AheadOfImport, SeenBefore
  <2>. QED  BY <1>2, <2>1 DEF Accept, outcome, BatchInv, LateRefusalsHaveACause
<1>3. ASSUME NextRow, employees' \in {employees, employees \cup {batch[at].claims}},
             failed' = failed \/ (failed' = failed \cup {at} /\ ~SecondPassPasses(at)),
             (added \cup failed \cup unsaved)' = (added \cup failed \cup unsaved) \cup {at}
      PROVE  BatchInv'
  <2>0. /\ at \in 1..BatchSize /\ at' = at + 1 /\ import = "adding"
        /\ UNCHANGED << batch, atomic, defaultOk, import, others >>
    BY <1>0, <1>3 DEF NextRow
  <2>1. ASSUME atomic, NEW i \in 1..BatchSize, i >= at + 1 PROVE AheadOfImport(i)'
    <3>1. i > at /\ AheadOfImport(i)
      BY <1>0, <2>0, <2>1 DEF BatchInv
    <3>. QED  BY <1>3, <2>0, <3>1, RowsAhead
  <2>2. ASSUME atomic, ~SecondPassPasses(at)
        PROVE  \/ batch[at].password = "default" /\ ~defaultOk
               \/ batch[at].claims \cap others # {}
    <3>1. AheadOfImport(at)
      BY <1>0, <2>0, <2>2 DEF BatchInv
    <3>. QED  BY <2>2, <3>1 DEF AheadOfImport, SecondPassPasses, RowPasses, Taken
  <2>3. LateRefusalsHaveACause'
    BY <1>3, <2>0, <2>2 DEF BatchInv, LateRefusalsHaveACause
  <2>4. (added \cup failed \cup unsaved = 1..(at - 1))'
    <3>1. 1..(at + 1 - 1) = 1..(at - 1) \cup {at}
      BY <1>0, <2>0
    <3>. QED  BY <1>3, <2>0, <3>1 DEF BatchInv
  <2>. QED  BY <1>0, <2>0, <2>1, <2>3, <2>4 DEF BatchInv
<1>4. CASE AddRow  BY <1>4, <1>3 DEF AddRow
<1>5. CASE RefuseRow  BY <1>5, <1>3 DEF RefuseRow
<1>6. CASE RowRaises  BY <1>6, <1>3 DEF RowRaises
<1>7. CASE Answer \/ ImportDies
  <2>1. /\ import' \in {"done", "dead"}
        /\ UNCHANGED << batch, atomic, defaultOk, at, added, failed, unsaved, others >>
    BY <1>7 DEF Answer, ImportDies, outcome
  <2>2. (import = "done" => at = BatchSize + 1)'
    BY <1>0, <1>7, <2>1 DEF Answer, ImportDies
  <2>3. ASSUME (import = "done")', atomic, defaultOk, others = {}, unsaved = {} PROVE added = DOMAIN batch
    <3>1. failed = {}
      BY <2>3 DEF BatchInv, LateRefusalsHaveACause
    <3>2. at = BatchSize + 1 /\ added = 1..(at - 1)
      BY <2>1, <2>2, <2>3, <3>1 DEF BatchInv
    <3>. QED  BY <1>0, <3>2
  <2>4. LateRefusalsHaveACause'
    BY <2>1, <2>3 DEF BatchInv, LateRefusalsHaveACause
  <2>. QED  BY <1>0, <2>1, <2>2, <2>4 DEF BatchInv
<1>8. ASSUME NEW claims \in SUBSET Claims \ {{}}, AddElsewhere(claims) PROVE BatchInv'
  <2>1. /\ employees' = employees \cup {claims} /\ others \subseteq others'
        /\ import = "adding" => others' = others \cup claims
        /\ import # "adding" => others' = others
        /\ UNCHANGED << batch, atomic, defaultOk, import, at, added, failed, unsaved >>
    BY <1>8 DEF AddElsewhere, outcome
  <2>2. \A i \in 1..BatchSize : import = "adding" /\ AheadOfImport(i) => AheadOfImport(i)'
    BY <2>1 DEF AheadOfImport, SeenBefore
  <2>3. LateRefusalsHaveACause'
    BY <2>1 DEF BatchInv, LateRefusalsHaveACause
  <2>. QED  BY <2>1, <2>2, <2>3 DEF BatchInv
<1>9. CASE UNCHANGED personnelVars
  BY <1>9 DEF personnelVars, BatchInv, AheadOfImport, SeenBefore, LateRefusalsHaveACause
<1>. QED  BY <1>1, <1>2, <1>4, <1>5, <1>6, <1>7, <1>8, <1>9 DEF PersonnelNext

\* For batches of any size and any employees added beside it, a row that an atomic import
\* refuses after its check has one of two causes, and neither is a row of its own batch; an
\* import that meets neither and no failing row is stored whole.
THEOREM LateRefusals == PersonnelSpec => []LateRefusalsHaveACause
<1>1. PersonnelInit => BatchInv
  BY PersonnelAssumption DEF PersonnelInit, BatchInv, LateRefusalsHaveACause
<1>2. BatchInv => LateRefusalsHaveACause
  BY DEF BatchInv
<1>. QED  BY <1>1, <1>2, StepBatch, PTL DEF PersonnelSpec

----------------------------------------------------------------------------
(* Transfers. *)

TransfersSpec == TransfersInit /\ [][TransfersNext]_transferVars

RequestRow == [agent : Agents, from : Squads, to : Squads, by : Managers \cup {Administrator},
               status : {"PENDING", "CANCELED", "APPROVED", "REJECTED"}]

\* A request under review is the agent's latest, so that the one that is approved next
\* continues where the approved ones have led.
TransfersInv ==
    /\ requests \in Seq(RequestRow)
    /\ assigned \in [Agents -> Seq(Squads)]
    /\ \A a \in Agents : \A i \in PendingFor(a), j \in DOMAIN requests :
          requests[j].agent = a => j <= i
    /\ \A a \in Agents : \A i \in Approved(a) : requests[i].from = TeamBefore(a, i)
    /\ \A a \in Agents : assigned[a] = << TeamBefore(a, Len(requests) + 1) >>

\* A set of positions of a sequence has a last one, and Max is it.
LEMMA MaxOfPositions ==
    ASSUME NEW n \in Nat, NEW S, S \subseteq 1..n, S # {}
    PROVE  Max(S) \in S /\ \A j \in S : j <= Max(S)
<1> DEFINE T == {n - j : j \in S}
<1>1. T \subseteq Nat /\ T # {}
  OBVIOUS
<1>2. PICK t \in T : \A u \in T : ~ << u, t >> \in OpToRel(<, Nat)
  BY <1>1, NatLessThanWellFounded, WFMin
<1>3. PICK m \in S : t = n - m
  OBVIOUS
<1>4. \A j \in S : j <= m
  <2>. TAKE j \in S
  <2>1. n - j \in Nat /\ t \in Nat /\ ~(n - j < t)
    BY <1>1, <1>2 DEF OpToRel
  <2>. QED  BY <2>1, <1>3
<1>5. \E x \in S : \A y \in S : x >= y
  BY <1>4
<1>. QED  BY <1>5 DEF Max

\* The last of a set of positions is known by its being the last.
LEMMA MaxIs ==
    ASSUME NEW S, S \subseteq Nat, NEW m \in S, \A j \in S : j <= m
    PROVE  Max(S) = m
<1>1. \E x \in S : \A y \in S : x >= y
  OBVIOUS
<1>2. Max(S) \in S /\ \A y \in S : Max(S) >= y
  BY <1>1 DEF Max
<1>3. Max(S) \in Nat /\ m \in Nat
  BY <1>2
<1>4. Max(S) >= m /\ Max(S) <= m
  BY <1>2
<1>. QED  BY <1>3, <1>4

\* What a request brings is known from the approved ones before it, and a step that leaves
\* those leaves it.
LEMMA SameTeamBefore ==
    ASSUME TransfersInv, NEW a \in Agents, NEW i \in Nat,
           firstTeam' = firstTeam, DOMAIN requests \subseteq DOMAIN requests',
           \A j \in DOMAIN requests : requests'[j].to = requests[j].to,
           {j \in Approved(a)' : j < i} = {j \in Approved(a) : j < i}
    PROVE  TeamBefore(a, i)' = TeamBefore(a, i)
<1> DEFINE S == {j \in Approved(a) : j < i}
<1>1. Len(requests) \in Nat /\ S \subseteq 1..Len(requests) /\ DOMAIN requests = 1..Len(requests)
  BY DEF TransfersInv, Approved
<1>2. S # {} => Max(S) \in DOMAIN requests
  BY <1>1, MaxOfPositions
<1>3. TeamBefore(a, i) = IF S = {} THEN firstTeam[a] ELSE requests[Max(S)].to
  BY DEF TeamBefore
<1>4. TeamBefore(a, i)' = IF S = {} THEN firstTeam[a] ELSE requests'[Max(S)].to
  BY DEF TeamBefore
<1>. QED  BY <1>2, <1>3, <1>4

LEMMA StepTransfers == TransfersInv /\ [TransfersNext]_transferVars => TransfersInv'
<1>. SUFFICES ASSUME TransfersInv, [TransfersNext]_transferVars PROVE TransfersInv'
  OBVIOUS
<1>0. /\ requests \in Seq(RequestRow) /\ Len(requests) \in Nat /\ DOMAIN requests = 1..Len(requests)
      /\ \A j \in DOMAIN requests : requests[j] \in RequestRow
      /\ assigned \in [Agents -> Seq(Squads)]
  BY DEF TransfersInv
<1>1. ASSUME NEW by \in Managers \cup {Administrator}, NEW a \in Agents,
             NEW from \in Squads, NEW to \in Squads, RequestTransfer(by, a, from, to)
      PROVE  TransfersInv'
  <2> DEFINE row == [agent |-> a, from |-> from, to |-> to, by |-> by, status |-> "PENDING"]
             n == Len(requests) + 1
  <2>1. row \in RequestRow /\ row.agent = a /\ row.status = "PENDING"
    BY DEF RequestRow
  <2>2. requests' = Append(requests, row) /\ UNCHANGED << firstTeam, assigned >>
    BY <1>1 DEF RequestTransfer
  <2>3. PendingFor(a) = {}
    BY <1>1 DEF RequestTransfer, NothingPending
  <2> HIDE DEF row
  <2>4. /\ requests' \in Seq(RequestRow) /\ Len(requests') = n /\ DOMAIN requests' = 1..n
        /\ \A j \in DOMAIN requests : requests'[j] = requests[j]
        /\ requests'[n] = row
    BY <1>0, <2>1, <2>2, AppendProperties
  <2>5. \A b \in Agents : Approved(b)' = Approved(b)
    BY <1>0, <2>1, <2>4 DEF Approved
  <2>6. \A b \in Agents : PendingFor(b)' = IF b = a THEN {n} ELSE PendingFor(b)
    BY <1>0, <2>1, <2>3, <2>4 DEF PendingFor
  <2>7. ASSUME NEW b \in Agents, NEW i \in PendingFor(b)', NEW j \in DOMAIN requests', requests'[j].agent = b
        PROVE  j <= i
    <3>1. CASE b = a
      BY <1>0, <2>4, <2>6, <3>1
    <3>2. CASE b # a
      <4>1. i \in PendingFor(b) /\ j \in DOMAIN requests /\ requests[j].agent = b
        BY <1>0, <2>1, <2>4, <2>6, <2>7, <3>2
      <4>. QED  BY <4>1 DEF TransfersInv
    <3>. QED  BY <3>1, <3>2
  <2>8. \A b \in Agents, i \in Nat : TeamBefore(b, i)' = TeamBefore(b, i)
    BY <1>0, <2>2, <2>4, <2>5, SameTeamBefore
  <2>9. \A b \in Agents : \A i \in Approved(b)' : requests'[i].from = TeamBefore(b, i)'
    BY <1>0, <2>4, <2>5, <2>8 DEF TransfersInv, Approved
  <2>10. \A b \in Agents : TeamBefore(b, n + 1) = TeamBefore(b, n)
    <3>. SUFFICES ASSUME NEW b \in Agents PROVE TeamBefore(b, n + 1) = TeamBefore(b, n)
      OBVIOUS
    <3>1. {j \in Approved(b) : j < n + 1} = {j \in Approved(b) : j < n}
      BY <1>0 DEF Approved
    <3>. QED  BY <3>1 DEF TeamBefore
  <2>11. \A b \in Agents : assigned'[b] = << TeamBefore(b, Len(requests) + 1)' >>
    BY <1>0, <2>2, <2>4, <2>8, <2>10 DEF TransfersInv
  <2>. QED  BY <1>0, <2>2, <2>4, <2>7, <2>9, <2>11 DEF TransfersInv
<1>2. ASSUME NEW i \in DOMAIN requests, NEW status \in {"CANCELED", "REJECTED"},
             requests[i].status = "PENDING", requests' = [requests EXCEPT ![i].status = status],
             UNCHANGED << firstTeam, assigned >>
      PROVE  TransfersInv'
  <2> DEFINE row == [requests[i] EXCEPT !.status = status]
  <2>1. /\ row \in RequestRow /\ row.status = status /\ row.agent = requests[i].agent
        /\ row.from = requests[i].from /\ row.to = requests[i].to
    BY <1>0 DEF RequestRow
  <2>2. requests' = [requests EXCEPT ![i] = row]
    BY <1>2
  <2> HIDE DEF row
  <2>3. /\ requests' \in Seq(RequestRow) /\ Len(requests') = Len(requests) /\ DOMAIN requests' = DOMAIN requests
        /\ \A j \in DOMAIN requests : requests'[j] = IF j = i THEN row ELSE requests[j]
    BY <1>0, <2>1, <2>2, ExceptSeq
  <2>4. \A b \in Agents : Approved(b)' = Approved(b) /\ PendingFor(b)' = PendingFor(b) \ {i}
    BY <1>0, <1>2, <2>1, <2>3 DEF Approved, PendingFor
  <2>5. \A b \in Agents, j \in Nat : TeamBefore(b, j)' = TeamBefore(b, j)
    BY <1>0, <1>2, <2>1, <2>3, <2>4, SameTeamBefore
  <2>6. \A b \in Agents : \A j \in Approved(b)' : requests'[j].from = TeamBefore(b, j)'
    BY <1>0, <2>1, <2>3, <2>4, <2>5 DEF TransfersInv, Approved
  <2>7. \A b \in Agents : assigned'[b] = << TeamBefore(b, Len(requests) + 1)' >>
    BY <1>0, <1>2, <2>3, <2>5 DEF TransfersInv
  <2>8. \A b \in Agents : \A j \in PendingFor(b)', k \in DOMAIN requests' :
           requests'[k].agent = b => k <= j
    BY <1>0, <2>1, <2>3, <2>4 DEF TransfersInv
  <2>. QED  BY <1>0, <1>2, <2>3, <2>6, <2>7, <2>8 DEF TransfersInv
<1>3. ASSUME NEW i \in DOMAIN requests, ReviewTransfer(i, "APPROVED")
      PROVE  TransfersInv'
  <2>0. PICK a \in Agents : a = requests[i].agent
    BY <1>0 DEF RequestRow
  <2> DEFINE row == [requests[i] EXCEPT !.status = "APPROVED"]
  <2>1. /\ row \in RequestRow /\ row.status = "APPROVED" /\ row.agent = a /\ requests[i].agent = a
        /\ row.from = requests[i].from /\ row.to = requests[i].to /\ requests[i].to \in Squads
    BY <1>0, <2>0 DEF RequestRow
  <2>2. /\ requests[i].status = "PENDING" /\ assigned[a] = << requests[i].from >>
        /\ requests' = [requests EXCEPT ![i] = row] /\ firstTeam' = firstTeam
        /\ assigned' = [assigned EXCEPT ![a] = Append(Tail(assigned[a]), requests[i].to)]
    BY <1>3, <2>0 DEF ReviewTransfer, StillMovable
  <2> HIDE DEF row
  <2>3. /\ requests' \in Seq(RequestRow) /\ Len(requests') = Len(requests) /\ DOMAIN requests' = DOMAIN requests
        /\ \A j \in DOMAIN requests : requests'[j] = IF j = i THEN row ELSE requests[j]
    BY <1>0, <2>1, <2>2, ExceptSeq
  <2>4. i \in PendingFor(a)
    BY <2>0, <2>2 DEF PendingFor
  <2>5. \A b \in Agents : /\ Approved(b)' = IF b = a THEN Approved(b) \cup {i} ELSE Approved(b)
                          /\ PendingFor(b)' = PendingFor(b) \ {i}
    BY <1>0, <2>1, <2>2, <2>3 DEF Approved, PendingFor
  <2>6. \A j \in Approved(a) : j < i
    BY <1>0, <2>1, <2>2, <2>4 DEF TransfersInv, Approved
  <2>7. \A b \in Agents, j \in 0..(Len(requests) + 1) :
           b # a \/ j <= i => TeamBefore(b, j)' = TeamBefore(b, j)
    <3>. SUFFICES ASSUME NEW b \in Agents, NEW j \in 0..(Len(requests) + 1), b # a \/ j <= i
                  PROVE  TeamBefore(b, j)' = TeamBefore(b, j)
      OBVIOUS
    <3>1. {k \in Approved(b)' : k < j} = {k \in Approved(b) : k < j}
      BY <1>0, <2>5
    <3>2. j \in Nat /\ firstTeam' = firstTeam /\ DOMAIN requests \subseteq DOMAIN requests'
      BY <1>0, <2>2, <2>3
    <3>3. \A k \in DOMAIN requests : requests'[k].to = requests[k].to
      BY <2>1, <2>3
    <3>. QED  BY <3>1, <3>2, <3>3, SameTeamBefore
  <2>8. TeamBefore(a, Len(requests) + 1)' = requests[i].to
    <3>1. {k \in Approved(a)' : k < Len(requests) + 1} = Approved(a) \cup {i}
      <4>1. Approved(a)' = Approved(a) \cup {i}
        BY <2>1, <2>5
      <4>2. \A k \in Approved(a) \cup {i} : k < Len(requests) + 1
        BY <1>0 DEF Approved
      <4>. QED  BY <4>1, <4>2
    <3>2. Max(Approved(a) \cup {i}) = i
      <4>1. i \in Nat /\ Approved(a) \cup {i} \subseteq Nat
        BY <1>0 DEF Approved
      <4>2. \A k \in Approved(a) \cup {i} : k <= i
        BY <2>6, <4>1
      <4>. QED  BY <4>1, <4>2, MaxIs
    <3>. QED  BY <2>1, <2>3, <3>1, <3>2 DEF TeamBefore
  <2>9. TeamBefore(a, i) = TeamBefore(a, Len(requests) + 1)
    <3>1. {k \in Approved(a) : k < i} = {k \in Approved(a) : k < Len(requests) + 1}
      BY <1>0, <2>6 DEF Approved
    <3>. QED  BY <3>1 DEF TeamBefore
  <2>10. requests[i].from = TeamBefore(a, i)
    BY <2>1, <2>2, <2>9 DEF TransfersInv
  <2>11. \A b \in Agents : \A j \in Approved(b)' : requests'[j].from = TeamBefore(b, j)'
    <3>. SUFFICES ASSUME NEW b \in Agents, NEW j \in Approved(b)'
                  PROVE  requests'[j].from = TeamBefore(b, j)'
      OBVIOUS
    <3>1. j \in DOMAIN requests /\ requests'[j].from = requests[j].from
      BY <2>1, <2>3 DEF Approved
    <3>2. CASE j = i /\ b = a
      BY <1>0, <2>1, <2>7, <2>10, <3>1, <3>2
    <3>3. CASE j \in Approved(b)
      <4>1. j \in 0..(Len(requests) + 1) /\ (b # a \/ j <= i)
        <5>1. j \in 1..Len(requests)
          BY <1>0, <3>1
        <5>2. b = a => j < i
          BY <2>6, <3>3
        <5>. QED  BY <1>0, <5>1, <5>2
      <4>2. requests[j].from = TeamBefore(b, j)
        BY <3>3 DEF TransfersInv
      <4>. QED  BY <2>7, <3>1, <4>1, <4>2
    <3>. QED  BY <2>5, <3>2, <3>3
  <2>12. Append(Tail(assigned[a]), requests[i].to) = << requests[i].to >>
    BY <2>2
  <2>13. \A b \in Agents : assigned'[b] = << TeamBefore(b, Len(requests) + 1)' >>
    <3>. SUFFICES ASSUME NEW b \in Agents
                  PROVE  assigned'[b] = << TeamBefore(b, Len(requests) + 1)' >>
      OBVIOUS
    <3>1. assigned'[b] = IF b = a THEN << requests[i].to >> ELSE assigned[b]
      BY <1>0, <2>2, <2>12 DEF TransfersInv
    <3>2. CASE b = a
      BY <2>8, <3>1, <3>2
    <3>3. CASE b # a
      <4>1. Len(requests) + 1 \in 0..(Len(requests) + 1)
        BY <1>0
      <4>2. TeamBefore(b, Len(requests) + 1)' = TeamBefore(b, Len(requests) + 1)
        BY <2>3, <2>7, <3>3, <4>1
      <4>. QED  BY <3>1, <3>3, <4>2 DEF TransfersInv
    <3>. QED  BY <3>2, <3>3
  <2>14. \A b \in Agents : \A j \in PendingFor(b)', k \in DOMAIN requests' :
            requests'[k].agent = b => k <= j
    BY <1>0, <2>1, <2>3, <2>5 DEF TransfersInv
  <2>15. assigned' \in [Agents -> Seq(Squads)]
    BY <1>0, <2>1, <2>2, <2>12
  <2>. QED  BY <2>3, <2>11, <2>13, <2>14, <2>15 DEF TransfersInv
<1>4. ASSUME NEW by, NEW i \in DOMAIN requests, CancelTransfer(by, i) PROVE TransfersInv'
  BY <1>4, <1>2 DEF CancelTransfer
<1>5. ASSUME NEW i \in DOMAIN requests, ReviewTransfer(i, "REJECTED") PROVE TransfersInv'
  BY <1>5, <1>2 DEF ReviewTransfer
<1>6. CASE UNCHANGED transferVars
  <2>1. requests' = requests /\ assigned' = assigned /\ firstTeam' = firstTeam
    BY <1>6 DEF transferVars
  <2>2. \A a \in Agents : PendingFor(a)' = PendingFor(a) /\ Approved(a)' = Approved(a)
    BY <2>1 DEF PendingFor, Approved
  <2>3. \A a \in Agents : \A i : TeamBefore(a, i)' = TeamBefore(a, i)
    BY <2>1, <2>2 DEF TeamBefore
  <2>. QED  BY <2>1, <2>2, <2>3 DEF TransfersInv
<1>. QED  BY <1>1, <1>3, <1>4, <1>5, <1>6 DEF TransfersNext

\* For any agents, teams, managers and any number of requests: one is under review at most,
\* and the approved ones chain from the first team to the present one.
THEOREM TransfersChain == TransfersSpec => []TransfersAreAChain
<1>1. TransfersInit => TransfersInv
  <2>. SUFFICES ASSUME TransfersInit PROVE TransfersInv
    OBVIOUS
  <2>1. requests = << >> /\ requests \in Seq(RequestRow) /\ DOMAIN requests = {}
    BY DEF TransfersInit
  <2>2. assigned \in [Agents -> Seq(Squads)]
    BY DEF TransfersInit
  <2>3. \A a \in Agents : PendingFor(a) = {} /\ Approved(a) = {}
    BY <2>1 DEF PendingFor, Approved
  <2>. QED  BY <2>1, <2>2, <2>3 DEF TransfersInit, TransfersInv, TeamBefore
<1>2. TransfersInv => TransfersAreAChain
  <2>. SUFFICES ASSUME TransfersInv, NEW a \in Agents PROVE Cardinality(PendingFor(a)) <= 1
    BY DEF TransfersInv, TransfersAreAChain
  <2>1. Len(requests) \in Nat /\ DOMAIN requests = 1..Len(requests)
    BY DEF TransfersInv
  <2>2. \A i, j \in PendingFor(a) : i = j
    BY <2>1 DEF TransfersInv, PendingFor
  <2>. QED  BY <2>2, AtMostOne
<1>. QED  BY <1>1, <1>2, StepTransfers, PTL DEF TransfersSpec

----------------------------------------------------------------------------
(* Candidate documents. *)

DocumentsSpec == DocumentsInit /\ [][DocumentsNext]_documentVars

FileState == [of : Docs \cup {NoDoc}, layers : Nat]

Layered(d, encrypted) == files[pathOf[d]] = [of |-> d, layers |-> IF encrypted THEN 1 ELSE 0]

FilesTyped ==
    /\ DOMAIN rows \subseteq Docs /\ rows \in [DOMAIN rows -> BOOLEAN]
    /\ \A d \in DOMAIN rows : pathOf[d] \in Paths
    /\ pathOf \in [Docs -> Paths \cup {NoDoc}]
    /\ files \in [Paths -> FileState]
    /\ upload \in [doc : Docs \cup {NoDoc}, pc : {"idle", "written", "encrypted"}]
    /\ api \in {"starting", "serving"}

\* The upload in the event loop: it has its path to itself but for spoilt documents, and
\* its file is what the step it is at has made it.
UploadInv ==
    /\ upload.doc = NoDoc <=> upload.pc = "idle"
    /\ api = "starting" => upload.doc = NoDoc
    /\ upload.doc # NoDoc =>
          /\ upload.doc \notin DOMAIN rows /\ pathOf[upload.doc] \in Paths
          /\ \A d \in Docs : pathOf[d] = pathOf[upload.doc] /\ d # upload.doc => d \in spoilt
          /\ upload.doc \notin spoilt => Layered(upload.doc, upload.pc = "encrypted")

\* Rows that are not marked are of the first start-up, when no two share a path and every
\* file is there.
UnmarkedInv ==
    /\ purge = "removing" => api = "serving"
    /\ backfill \subseteq {d \in DOMAIN rows : ~rows[d]}
    /\ (\E d \in DOMAIN rows : ~rows[d]) =>
          /\ api = "starting"
          /\ \A d, e \in DOMAIN rows : pathOf[d] = pathOf[e] => d = e
          /\ \A d \in DOMAIN rows : ~rows[d] => files[pathOf[d]] # NoFile

FilesInv ==
    /\ FilesTyped /\ UploadInv /\ UnmarkedInv
    /\ \A d, e \in Docs \ spoilt : pathOf[d] = pathOf[e] /\ pathOf[d] # NoDoc => d = e
    /\ \A d \in DOMAIN rows \ spoilt : Layered(d, rows[d] \/ d \in backfill)

LEMMA NoFileTyped == NoFile \in FileState
BY DEF NoFile, FileState

\* Encryption in place adds a layer and keeps the content.
LEMMA EncryptedFile ==
    ASSUME FilesTyped, NEW p \in Paths, files' = Encrypted(p)
    PROVE  /\ files' \in [Paths -> FileState]
           /\ files'[p] # NoFile
           /\ files'[p] = [of |-> files[p].of, layers |-> files[p].layers + 1]
           /\ \A q \in Paths \ {p} : files'[q] = files[q]
<1> DEFINE f == [of |-> files[p].of, layers |-> files[p].layers + 1]
<1>1. files[p] \in FileState
  BY DEF FilesTyped
<1>2. f \in FileState /\ f.layers # 0 /\ [files[p] EXCEPT !.layers = @ + 1] = f
  BY <1>1 DEF FileState
<1>3. f # NoFile
  BY <1>2 DEF NoFile
<1>4. files' = [files EXCEPT ![p] = f]
  BY <1>2 DEF Encrypted
<1> HIDE DEF f
<1>5. files' \in [Paths -> FileState] /\ files'[p] = f /\ \A q \in Paths \ {p} : files'[q] = files[q]
  BY <1>2, <1>4 DEF FilesTyped
<1>. QED  BY <1>3, <1>5 DEF f

LEMMA StepFiles == FilesInv /\ [DocumentsNext]_documentVars => FilesInv'
<1>. SUFFICES ASSUME FilesInv, [DocumentsNext]_documentVars PROVE FilesInv'
  OBVIOUS
<1>0. /\ NoDoc \notin Docs /\ NoDoc \notin Paths
      /\ FilesTyped /\ UploadInv /\ UnmarkedInv
  BY DocumentsAssumption DEF FilesInv
<1>1. ASSUME NEW d \in Docs, NEW p \in Paths, WriteUpload(d, p) PROVE FilesInv'
  <2> DEFINE f == [of |-> d, layers |-> 0]
             u == [doc |-> d, pc |-> "written"]
  <2>1. /\ api = "serving" /\ upload = NoUpload /\ pathOf[d] = NoDoc
        /\ files' = [files EXCEPT ![p] = f]
        /\ pathOf' = [pathOf EXCEPT ![d] = p]
        /\ spoilt' = spoilt \cup At(p) /\ upload' = u
        /\ UNCHANGED << rows, purge, backfill, api, deaths >>
    BY <1>1 DEF WriteUpload
  <2>2. /\ f \in FileState /\ u.doc = d /\ u.pc = "written"
        /\ u \in [doc : Docs \cup {NoDoc}, pc : {"idle", "written", "encrypted"}]
    BY DEF FileState
  <2>3. f = [of |-> d, layers |-> IF u.pc = "encrypted" THEN 1 ELSE 0]
    BY <2>2
  <2> HIDE DEF f, u
  <2>4. /\ files'[p] = f /\ \A q \in Paths \ {p} : files'[q] = files[q]
        /\ files' \in [Paths -> FileState]
        /\ pathOf'[d] = p /\ \A e \in Docs \ {d} : pathOf'[e] = pathOf[e]
        /\ pathOf' \in [Docs -> Paths \cup {NoDoc}]
    BY <1>0, <2>1, <2>2 DEF FilesTyped
  <2>5. d \notin DOMAIN rows /\ backfill = {} /\ \A e \in DOMAIN rows : rows[e]
    BY <1>0, <2>1 DEF FilesTyped, UnmarkedInv
  <2>6. \A e \in Docs : e \in At(p) <=> pathOf[e] = p
    BY DEF At
  <2>7. FilesTyped'
    BY <1>0, <2>1, <2>2, <2>4, <2>5 DEF FilesTyped
  <2>8. UploadInv'
    BY <1>0, <2>1, <2>2, <2>3, <2>4, <2>5, <2>6 DEF UploadInv, Layered
  <2>9. UnmarkedInv'
    BY <2>1, <2>5 DEF UnmarkedInv
  <2>10. \A e, g \in Docs \ spoilt' : pathOf'[e] = pathOf'[g] /\ pathOf'[e] # NoDoc => e = g
    BY <2>1, <2>4, <2>6 DEF FilesInv
  <2>11. \A e \in DOMAIN rows \ spoilt' : Layered(e, rows[e] \/ e \in backfill)'
    <3>. SUFFICES ASSUME NEW e \in DOMAIN rows \ spoilt' PROVE Layered(e, rows[e] \/ e \in backfill)'
      OBVIOUS
    <3>1. e \in Docs \ {d} /\ pathOf[e] \in Paths \ {p} /\ e \notin spoilt
      BY <1>0, <2>1, <2>5, <2>6 DEF FilesTyped
    <3>2. Layered(e, rows[e] \/ e \in backfill)
      BY <3>1 DEF FilesInv
    <3>. QED  BY <2>1, <2>4, <3>1, <3>2 DEF Layered
  <2>. QED  BY <2>1, <2>7, <2>8, <2>9, <2>10, <2>11 DEF FilesInv
<1>2. CASE EncryptUpload
  <2> DEFINE u == [upload EXCEPT !.pc = "encrypted"]
  <2>1. PICK d \in Docs : /\ upload.doc = d /\ upload.pc = "written" /\ d \notin DOMAIN rows
                          /\ pathOf[d] \in Paths
    BY <1>0, <1>2 DEF EncryptUpload, UploadInv, FilesTyped
  <2>2. /\ files' = Encrypted(pathOf[d]) /\ upload' = u
        /\ UNCHANGED << rows, pathOf, purge, backfill, api, spoilt, deaths >>
    BY <1>2, <2>1 DEF EncryptUpload
  <2>3. /\ u \in [doc : Docs \cup {NoDoc}, pc : {"idle", "written", "encrypted"}]
        /\ u.doc = d /\ u.pc = "encrypted"
    BY <1>0, <2>1 DEF FilesTyped
  <2> HIDE DEF u
  <2>4. /\ files' \in [Paths -> FileState] /\ files'[pathOf[d]] # NoFile
        /\ files'[pathOf[d]] = [of |-> files[pathOf[d]].of, layers |-> files[pathOf[d]].layers + 1]
        /\ \A q \in Paths \ {pathOf[d]} : files'[q] = files[q]
    BY <1>0, <2>1, <2>2, EncryptedFile
  <2>5. FilesTyped'
    BY <1>0, <2>2, <2>3, <2>4 DEF FilesTyped
  <2>6. d \notin spoilt => files'[pathOf[d]] = [of |-> d, layers |-> 1]
    BY <1>0, <2>1, <2>4 DEF UploadInv, Layered
  <2>7. UploadInv'
    BY <1>0, <2>1, <2>2, <2>3, <2>6 DEF UploadInv, Layered
  <2>8. UnmarkedInv'
    BY <1>0, <2>1, <2>2 DEF UnmarkedInv, UploadInv
  <2>9. \A e \in DOMAIN rows \ spoilt : Layered(e, rows[e] \/ e \in backfill)'
    <3>. SUFFICES ASSUME NEW e \in DOMAIN rows \ spoilt PROVE Layered(e, rows[e] \/ e \in backfill)'
      OBVIOUS
    <3>1. e \in Docs /\ pathOf[e] \in Paths \ {pathOf[d]}
      BY <1>0, <2>1 DEF FilesTyped, UploadInv
    <3>2. Layered(e, rows[e] \/ e \in backfill)
      BY DEF FilesInv
    <3>. QED  BY <2>2, <2>4, <3>1, <3>2 DEF Layered
  <2>. QED  BY <2>2, <2>5, <2>7, <2>8, <2>9 DEF FilesInv
<1>3. CASE UploadFails
  <2>1. PICK d \in Docs : upload.doc = d /\ pathOf[d] \in Paths /\ d \notin DOMAIN rows
    BY <1>0, <1>3 DEF UploadFails, UploadInv, FilesTyped
  <2> DEFINE p == pathOf[d]
  <2>2. /\ files' = [files EXCEPT ![pathOf[d]] = NoFile] /\ upload' = NoUpload
        /\ spoilt' = spoilt \cup At(pathOf[d])
        /\ UNCHANGED << rows, pathOf, purge, backfill, api, deaths >>
    BY <1>3, <2>1 DEF UploadFails
  <2>3. /\ files' \in [Paths -> FileState] /\ \A q \in Paths \ {pathOf[d]} : files'[q] = files[q]
    BY <1>0, <2>1, <2>2, NoFileTyped DEF FilesTyped
  <2>4. api # "starting" /\ backfill = {} /\ \A e \in DOMAIN rows : rows[e]
    BY <1>0, <1>3, <2>1 DEF UploadInv, UnmarkedInv, FilesTyped
  <2>5. FilesTyped'
    BY <1>0, <2>2, <2>3 DEF FilesTyped, NoUpload
  <2>6. UploadInv'
    BY <1>0, <2>2 DEF UploadInv, NoUpload
  <2>7. UnmarkedInv'
    BY <1>0, <2>2, <2>4 DEF UnmarkedInv
  <2>8. \A e \in DOMAIN rows \ spoilt' : Layered(e, rows[e] \/ e \in backfill)'
    <3>. SUFFICES ASSUME NEW e \in DOMAIN rows \ spoilt' PROVE Layered(e, rows[e] \/ e \in backfill)'
      OBVIOUS
    <3>1. e \in Docs /\ pathOf[e] \in Paths \ {pathOf[d]} /\ e \notin spoilt
      BY <1>0, <2>2 DEF FilesTyped, At
    <3>2. Layered(e, rows[e] \/ e \in backfill)
      BY <3>1 DEF FilesInv
    <3>. QED  BY <2>2, <2>3, <3>1, <3>2 DEF Layered
  <2>. QED  BY <2>2, <2>5, <2>6, <2>7, <2>8 DEF FilesInv
<1>4. CASE CommitUpload
  <2>1. PICK d \in Docs : /\ upload.doc = d /\ upload.pc = "encrypted" /\ pathOf[d] \in Paths
                          /\ d \notin DOMAIN rows
    BY <1>0, <1>4 DEF CommitUpload, UploadInv, FilesTyped
  <2>2. /\ upload' = NoUpload /\ UNCHANGED << pathOf, files, purge, backfill, api, spoilt, deaths >>
        /\ \/ rows' = rows
           \/ rows' = [e \in DOMAIN rows \cup {d} |-> IF e = d THEN TRUE ELSE rows[e]]
    BY <1>4, <2>1 DEF CommitUpload
  <2>3. CASE rows' = rows
    <3>1. FilesTyped' /\ UploadInv' /\ UnmarkedInv'
      BY <1>0, <2>2, <2>3 DEF FilesTyped, UploadInv, UnmarkedInv, NoUpload
    <3>. QED  BY <2>2, <2>3, <3>1 DEF FilesInv, Layered
  <2>4. CASE rows' = [e \in DOMAIN rows \cup {d} |-> IF e = d THEN TRUE ELSE rows[e]]
    <3>1. /\ DOMAIN rows' = DOMAIN rows \cup {d} /\ rows'[d] = TRUE
          /\ \A e \in DOMAIN rows : rows'[e] = rows[e]
          /\ rows' \in [DOMAIN rows' -> BOOLEAN]
      BY <1>0, <2>1, <2>4 DEF FilesTyped
    <3>2. FilesTyped'
      BY <1>0, <2>1, <2>2, <3>1 DEF FilesTyped, NoUpload
    <3>3. UploadInv'
      BY <2>2 DEF UploadInv, NoUpload
    <3>4. backfill = {} /\ \A e \in DOMAIN rows : rows[e]
      BY <1>0, <2>1 DEF UnmarkedInv, UploadInv
    <3>5. UnmarkedInv'
      BY <1>0, <2>2, <3>1, <3>4 DEF UnmarkedInv
    <3>6. \A e \in DOMAIN rows' \ spoilt : Layered(e, rows[e] \/ e \in backfill)'
      <4>. SUFFICES ASSUME NEW e \in DOMAIN rows' \ spoilt PROVE Layered(e, rows[e] \/ e \in backfill)'
        OBVIOUS
      <4>1. CASE e = d
        <5>1. Layered(d, TRUE)
          BY <1>0, <2>1, <4>1 DEF UploadInv
        <5>. QED  BY <2>2, <3>1, <4>1, <5>1 DEF Layered
      <4>2. CASE e \in DOMAIN rows
        BY <2>2, <3>1, <4>2 DEF FilesInv, Layered
      <4>. QED  BY <3>1, <4>1, <4>2
    <3>. QED  BY <2>2, <3>2, <3>3, <3>5, <3>6 DEF FilesInv
  <2>. QED  BY <2>2, <2>3, <2>4
<1>5. CASE PurgeFiles
  <2>1. /\ api = "serving"
        /\ files' = [p \in Paths |-> IF At(p) \cap DOMAIN rows # {} THEN NoFile ELSE files[p]]
        /\ spoilt' = spoilt \cup UNION {At(pathOf[d]) : d \in DOMAIN rows}
        /\ UNCHANGED << rows, pathOf, upload, backfill, api, deaths >>
    BY <1>5 DEF PurgeFiles
  <2>2. backfill = {} /\ \A e \in DOMAIN rows : rows[e]
    BY <1>0, <2>1 DEF UnmarkedInv
  <2>3. /\ files' \in [Paths -> FileState]
        /\ \A e \in Docs \ spoilt' : pathOf[e] \in Paths => files'[pathOf[e]] = files[pathOf[e]]
    BY <1>0, <2>1, NoFileTyped DEF FilesTyped, At
  <2>4. FilesTyped'
    BY <1>0, <2>1, <2>3 DEF FilesTyped
  <2>5. UploadInv'
    BY <1>0, <2>1, <2>3 DEF UploadInv, Layered, FilesTyped
  <2>6. UnmarkedInv'
    BY <2>1, <2>2 DEF UnmarkedInv
  <2>7. \A e \in DOMAIN rows \ spoilt' : Layered(e, rows[e] \/ e \in backfill)'
    BY <1>0, <2>1, <2>3 DEF FilesInv, Layered, FilesTyped
  <2>. QED  BY <2>1, <2>4, <2>5, <2>6, <2>7 DEF FilesInv
<1>6. CASE PurgeRows
  <2>1. /\ rows' = << >> /\ purge = "removing" /\ purge' = "purged"
        /\ UNCHANGED << pathOf, files, upload, backfill, api, spoilt, deaths >>
    BY <1>6 DEF PurgeRows
  <2>2. DOMAIN rows' = {} /\ rows' \in [DOMAIN rows' -> BOOLEAN]
    BY <2>1
  <2>3. backfill = {}
    BY <1>0, <2>1 DEF UnmarkedInv
  <2>4. FilesTyped' /\ UploadInv' /\ UnmarkedInv'
    BY <1>0, <2>1, <2>2, <2>3 DEF FilesTyped, UploadInv, UnmarkedInv, Layered
  <2>. QED  BY <2>1, <2>2, <2>4 DEF FilesInv
<1>7. ASSUME NEW d \in Docs, BackfillFile(d) PROVE FilesInv'
  <2>1. /\ api = "starting" /\ d \in DOMAIN rows \ backfill /\ ~rows[d]
        /\ files' = Encrypted(pathOf[d]) /\ backfill' = backfill \cup {d}
        /\ UNCHANGED << rows, pathOf, upload, purge, api, spoilt, deaths >>
    BY <1>7 DEF BackfillFile, ToSecure
  <2>2. pathOf[d] \in Paths /\ DOMAIN rows \subseteq Docs /\ \A e \in DOMAIN rows : pathOf[e] \in Paths
    BY <1>0, <2>1 DEF FilesTyped
  <2>3. /\ files' \in [Paths -> FileState] /\ files'[pathOf[d]] # NoFile
        /\ files'[pathOf[d]] = [of |-> files[pathOf[d]].of, layers |-> files[pathOf[d]].layers + 1]
        /\ \A q \in Paths \ {pathOf[d]} : files'[q] = files[q]
    BY <1>0, <2>1, <2>2, EncryptedFile
  <2>4. FilesTyped'
    BY <1>0, <2>1, <2>3 DEF FilesTyped
  <2>5. UploadInv'
    BY <1>0, <2>1 DEF UploadInv
  <2>6. UnmarkedInv'
    BY <1>0, <2>1, <2>2, <2>3 DEF UnmarkedInv
  <2>7. ASSUME NEW e \in DOMAIN rows \ spoilt PROVE Layered(e, rows[e] \/ e \in backfill)'
    <3>1. CASE e = d
      <4>1. files[pathOf[d]] = [of |-> d, layers |-> 0]
        BY <2>1, <3>1 DEF FilesInv, Layered
      <4>2. files'[pathOf[d]] = [of |-> d, layers |-> 1]
        BY <2>3, <4>1
      <4>. QED  BY <2>1, <3>1, <4>2 DEF Layered
    <3>2. CASE e # d
      <4>1. pathOf[e] \in Paths \ {pathOf[d]}
        BY <1>0, <2>1, <2>2, <3>2 DEF UnmarkedInv
      <4>. QED  BY <2>1, <2>3, <3>2, <4>1 DEF FilesInv, Layered
    <3>. QED  BY <3>1, <3>2
  <2>. QED  BY <2>1, <2>4, <2>5, <2>6, <2>7 DEF FilesInv
<1>8. CASE BackfillCommit
  <2>1. /\ api = "starting" /\ \A d \in ToSecure : files[pathOf[d]] = NoFile
        /\ rows' = [d \in DOMAIN rows |-> rows[d] \/ d \in backfill]
        /\ backfill' = {} /\ api' = "serving"
        /\ UNCHANGED << pathOf, files, upload, purge, spoilt, deaths >>
    BY <1>8 DEF BackfillCommit
  <2>2. ToSecure = {}
    BY <1>0, <2>1 DEF ToSecure, UnmarkedInv
  <2>3. \A d \in DOMAIN rows : rows[d] \/ d \in backfill
    BY <2>2 DEF ToSecure
  <2>4. DOMAIN rows' = DOMAIN rows /\ \A d \in DOMAIN rows : rows'[d] = TRUE
    BY <2>1, <2>3
  <2>5. rows' \in [DOMAIN rows' -> BOOLEAN]
    BY <2>1
  <2>6. FilesTyped'
    BY <1>0, <2>1, <2>4, <2>5 DEF FilesTyped
  <2>7. UploadInv' /\ UnmarkedInv'
    BY <1>0, <2>1, <2>4 DEF UploadInv, UnmarkedInv
  <2>8. \A e \in DOMAIN rows' \ spoilt : Layered(e, rows[e] \/ e \in backfill)'
    BY <2>1, <2>3, <2>4 DEF FilesInv, Layered
  <2>. QED  BY <2>1, <2>6, <2>7, <2>8 DEF FilesInv
<1>9. CASE ApiRestarts
  <2>1. /\ api' = "starting" /\ spoilt' = spoilt \cup backfill /\ backfill' = {} /\ upload' = NoUpload
        /\ purge' # "removing" /\ UNCHANGED << rows, pathOf, files >>
    BY <1>9 DEF ApiRestarts
  <2>2. FilesTyped' /\ UploadInv' /\ UnmarkedInv'
    BY <1>0, <2>1 DEF FilesTyped, UploadInv, UnmarkedInv, NoUpload
  <2>3. \A e \in DOMAIN rows \ spoilt' : Layered(e, rows[e] \/ e \in backfill)'
    BY <2>1 DEF FilesInv, Layered
  <2>. QED  BY <2>1, <2>2, <2>3 DEF FilesInv
<1>10. CASE UNCHANGED documentVars
  BY <1>10 DEF documentVars, FilesInv, FilesTyped, UploadInv, UnmarkedInv, Layered
<1>. QED  BY <1>1, <1>2, <1>3, <1>4, <1>5, <1>6, <1>7, <1>8, <1>9, <1>10 DEF DocumentsNext

\* However many documents, paths, uploads and restarts there are, a stored document that
\* shared no path and met no death half way can be read back.
THEOREM Readable == DocumentsSpec => []DocumentsReadable
<1>1. DocumentsInit => FilesInv
  <2>. SUFFICES ASSUME DocumentsInit PROVE FilesInv
    OBVIOUS
  <2>0. OldDocs \subseteq Docs /\ NoDoc \notin Docs /\ NoDoc \notin Paths
    BY DocumentsAssumption
  <2>1. /\ DOMAIN rows = OldDocs /\ \A d \in OldDocs : rows[d] = FALSE /\ pathOf[d] \in Paths
        /\ rows \in [DOMAIN rows -> BOOLEAN]
    BY <2>0 DEF DocumentsInit
  <2>2. \A d \in OldDocs : files[pathOf[d]] = [of |-> d, layers |-> 0]
    <3>. SUFFICES ASSUME NEW d \in OldDocs PROVE files[pathOf[d]] = [of |-> d, layers |-> 0]
      OBVIOUS
    <3>1. (CHOOSE e \in OldDocs : pathOf[e] = pathOf[d]) = d
      BY DEF DocumentsInit
    <3>. QED  BY <2>1, <3>1 DEF DocumentsInit
  <2>3. files \in [Paths -> FileState]
    <3>1. \A p \in Paths : (\E d \in OldDocs : pathOf[d] = p)
             => [of |-> CHOOSE d \in OldDocs : pathOf[d] = p, layers |-> 0] \in FileState
      BY <2>0 DEF FileState
    <3>. QED  BY <3>1, NoFileTyped DEF DocumentsInit
  <2>5. \A d \in OldDocs : files[pathOf[d]] # NoFile
    <3>. SUFFICES ASSUME NEW d \in OldDocs PROVE files[pathOf[d]] # NoFile
      OBVIOUS
    <3>1. files[pathOf[d]] = [of |-> d, layers |-> 0]
      BY <2>2
    <3>2. files[pathOf[d]].of = d /\ d # NoDoc
      BY <2>0, <3>1
    <3>. QED  BY <3>2 DEF NoFile
  <2>6. upload.doc = NoDoc /\ upload.pc = "idle"
        /\ upload \in [doc : Docs \cup {NoDoc}, pc : {"idle", "written", "encrypted"}]
    BY DEF DocumentsInit, NoUpload
  <2>7. FilesTyped
    BY <2>0, <2>1, <2>3, <2>6 DEF DocumentsInit, FilesTyped
  <2>8. UploadInv
    BY <2>6 DEF UploadInv
  <2>9. UnmarkedInv
    BY <2>1, <2>5 DEF DocumentsInit, UnmarkedInv
  <2>. QED  BY <2>1, <2>2, <2>7, <2>8, <2>9 DEF DocumentsInit, FilesInv, Layered
<1>2. FilesInv => DocumentsReadable
  <2>. SUFFICES ASSUME FilesInv, NEW d \in DOMAIN rows \ (spoilt \cup backfill)
                PROVE  files[pathOf[d]] = [of |-> d, layers |-> IF rows[d] THEN 1 ELSE 0]
    BY DEF DocumentsReadable
  <2>. QED  BY DEF FilesInv, Layered
<1>. QED  BY <1>1, <1>2, StepFiles, PTL DEF DocumentsSpec

----------------------------------------------------------------------------
(* Administration. *)

DirectorySpec == DirectoryInit /\ [][DirectoryNext]_directoryVars

EmployeeRow == [role : StaffRoles \cup {NoOne}, active : BOOLEAN, scope : Teams \cup {NoOne}]

DirectoryTyped ==
    /\ staff \in [Staff -> EmployeeRow]
    /\ leader \in [Teams -> Staff \cup {NoOne}]
    /\ \A e \in Staff : staff[e].role = NoOne => ~staff[e].active

\* What a request has still to commit: the new status of an employee who has the new role
\* and scope already, or the team of a leader who has been taken from the other one.
StatusIsLeft(w) ==
    \E e \in Staff, active \in BOOLEAN :
        /\ w = WriteStaff(e, [staff[e] EXCEPT !.active = active])
        /\ staff[e].role # NoOne

TeamIsLeft(w) ==
    \E t \in Teams, e \in Staff :
        /\ w = WriteLeader(t, e)
        /\ staff[e].role = "TEAM_LEADER" /\ Led(e) = {}

Leading ==
    /\ \A t \in Teams : leader[t] # NoOne => staff[leader[t]].role = "TEAM_LEADER"
    /\ \A t, u \in Teams : leader[t] = leader[u] /\ leader[t] # NoOne => t = u
    /\ \A e \in Staff : staff[e].scope # NoOne => staff[e].role = "QA"

LeadersInv ==
    /\ DirectoryTyped /\ Leading
    /\ todo = << >> \/ \E w : todo = << w >> /\ (StatusIsLeft(w) \/ TeamIsLeft(w))

\* The three kinds of commits, each with what it does.
LEMMA StaffWritten ==
    ASSUME DirectoryTyped, NEW e \in Staff, NEW to, Apply(WriteStaff(e, to))
    PROVE  staff' = [staff EXCEPT ![e] = to] /\ leader' = leader
<1>1. WriteStaff(e, to).of = e /\ WriteStaff(e, to).to = to /\ DOMAIN WriteStaff(e, to).leads = {}
  BY DEF WriteStaff
<1>. QED  BY <1>1 DEF Apply, DirectoryTyped

LEMMA LeaderWritten ==
    ASSUME DirectoryTyped, NEW t \in Teams, NEW e, Apply(WriteLeader(t, e))
    PROVE  staff' = staff /\ leader' = [leader EXCEPT ![t] = e]
<1>1. WriteLeader(t, e).of = NoOne /\ WriteLeader(t, e).leads = [u \in {t} |-> e]
  BY DEF WriteLeader
<1>2. DOMAIN WriteLeader(t, e).leads = {t} /\ WriteLeader(t, e).leads[t] = e
  BY <1>1
<1>. QED  BY <1>1, <1>2, DirectoryAssumption DEF Apply, DirectoryTyped

\* The commit of a new role that is made with the first team of the former leader.
RoleWithTeam(e, to, t) == [WriteLeader(t, NoOne) EXCEPT !.of = e, !.to = to]

LEMMA RoleWithTeamWritten ==
    ASSUME DirectoryTyped, NEW e \in Staff, NEW to, NEW t \in Teams, Apply(RoleWithTeam(e, to, t))
    PROVE  staff' = [staff EXCEPT ![e] = to] /\ leader' = [leader EXCEPT ![t] = NoOne]
<1>1. /\ RoleWithTeam(e, to, t).of = e /\ RoleWithTeam(e, to, t).to = to
      /\ RoleWithTeam(e, to, t).leads = [u \in {t} |-> NoOne]
  BY DEF RoleWithTeam, WriteLeader
<1>2. DOMAIN RoleWithTeam(e, to, t).leads = {t} /\ RoleWithTeam(e, to, t).leads[t] = NoOne
  BY <1>1
<1>. QED  BY <1>1, <1>2 DEF Apply, DirectoryTyped

LEMMA SmallSetToSeq ==
    /\ SetToSeq({}) = << >>
    /\ \A x : SetToSeq({x}) = << x >>
<1>1. SetToSeq({}) = << >>
  <2>1. Cardinality({}) = 0
    BY FS_EmptySet
  <2>2. \E f \in [1..0 -> {}] : IsInjective(f)
    <3>1. << >> \in [1..0 -> {}] /\ IsInjective(<< >>)
      BY DEF IsInjective
    <3>. QED  BY <3>1
  <2>3. SetToSeq({}) \in [1..0 -> {}]
    BY <2>1, <2>2 DEF SetToSeq
  <2>. QED  BY <2>3
<1>2. ASSUME NEW x PROVE SetToSeq({x}) = << x >>
  <2>1. Cardinality({x}) = 1
    BY FS_Singleton
  <2>2. \E f \in [1..1 -> {x}] : IsInjective(f)
    <3>1. << x >> \in [1..1 -> {x}] /\ IsInjective(<< x >>)
      BY DEF IsInjective
    <3>. QED  BY <3>1
  <2>3. SetToSeq({x}) \in [1..1 -> {x}]
    BY <2>1, <2>2 DEF SetToSeq
  <2>. QED  BY <2>3
<1>. QED  BY <1>1, <1>2

Moved(e, role) ==
    [staff[e] EXCEPT !.role = role, !.scope = IF staff[e].role = "QA" THEN NoOne ELSE @]

LEMMA MovedTyped ==
    ASSUME DirectoryTyped, Leading, NEW e \in Staff, NEW role \in StaffRoles
    PROVE  /\ Moved(e, role) \in EmployeeRow
           /\ Moved(e, role).role = role /\ Moved(e, role).active = staff[e].active
           /\ Moved(e, role).scope # NoOne => staff[e].role = role
<1>1. staff[e] \in EmployeeRow /\ (staff[e].scope # NoOne => staff[e].role = "QA")
  BY DEF DirectoryTyped, Leading
<1>. QED  BY <1>1 DEF EmployeeRow, Moved

\* As nobody leads two teams, a new role is one commit, with the team of a former leader.
LEMMA RoleWritesAre ==
    ASSUME DirectoryTyped, Leading, NEW e \in Staff, NEW role \in StaffRoles \cup {NoOne}
    PROVE  \/ role \in {NoOne, staff[e].role} /\ RoleWrites(e, role) = << >>
           \/ /\ role \notin {NoOne, staff[e].role} /\ Led(e) = {}
              /\ RoleWrites(e, role) = << WriteStaff(e, Moved(e, role)) >>
           \/ /\ role \notin {NoOne, staff[e].role}
              /\ \E t \in Teams : /\ Led(e) = {t}
                                  /\ RoleWrites(e, role) = << RoleWithTeam(e, Moved(e, role), t) >>
<1> DEFINE freed == IF staff[e].role = "TEAM_LEADER"
                    THEN [i \in 1..Cardinality(Led(e)) |-> WriteLeader(SetToSeq(Led(e))[i], NoOne)]
                    ELSE << >>
<1>1. e # NoOne
  BY DirectoryAssumption
<1>2. \A t, u \in Led(e) : t = u
  BY <1>1 DEF Leading, Led
<1>3. Led(e) # {} => staff[e].role = "TEAM_LEADER"
  BY <1>1 DEF Leading, Led
<1>4. RoleWrites(e, role) =
         IF role \in {NoOne, staff[e].role} THEN << >>
         ELSE IF freed # << >> THEN << [freed[1] EXCEPT !.of = e, !.to = Moved(e, role)] >> \o Tail(freed)
              ELSE << WriteStaff(e, Moved(e, role)) >>
  BY DEF RoleWrites, Moved
<1>5. CASE role \in {NoOne, staff[e].role}
  BY <1>4, <1>5
<1>6. CASE role \notin {NoOne, staff[e].role} /\ Led(e) = {}
  <2>1. Cardinality(Led(e)) = 0
    BY <1>6, FS_EmptySet
  <2>2. freed = << >>
    BY <2>1
  <2>. QED  BY <1>4, <1>6, <2>2
<1>7. CASE role \notin {NoOne, staff[e].role} /\ Led(e) # {}
  <2>1. PICK t \in Teams : Led(e) = {t}
    BY <1>2, <1>7 DEF Led
  <2>2. Cardinality(Led(e)) = 1 /\ SetToSeq(Led(e)) = << t >>
    BY <2>1, FS_Singleton, SmallSetToSeq
  <2>3. freed = << WriteLeader(t, NoOne) >>
    BY <1>3, <1>7, <2>2
  <2> HIDE DEF freed
  <2>4. freed # << >> /\ freed[1] = WriteLeader(t, NoOne) /\ Tail(freed) = << >>
    BY <2>3
  <2>5. RoleWrites(e, role) = << RoleWithTeam(e, Moved(e, role), t) >> \o << >>
    BY <1>4, <1>7, <2>4 DEF RoleWithTeam
  <2>6. RoleWrites(e, role) = << RoleWithTeam(e, Moved(e, role), t) >>
    BY <2>5
  <2>. QED  BY <1>7, <2>1, <2>6
<1>. QED  BY <1>5, <1>6, <1>7

\* A row that is written keeps the teams in order when the leader's role stays, or when
\* nobody or only the team written with it was led.
LEMMA StaffKeeps ==
    ASSUME DirectoryTyped, Leading, NEW e \in Staff, NEW to \in EmployeeRow,
           staff' = [staff EXCEPT ![e] = to],
           to.scope # NoOne => to.role = "QA", to.role = NoOne => ~to.active,
           \/ leader' = leader /\ (Led(e) = {} \/ to.role = staff[e].role)
           \/ \E t \in Teams : Led(e) = {t} /\ leader' = [leader EXCEPT ![t] = NoOne]
    PROVE  DirectoryTyped' /\ Leading'
<1>0. e # NoOne
  BY DirectoryAssumption
<1>1. DirectoryTyped'
  BY DEF DirectoryTyped
<1>2. CASE leader' = leader /\ (Led(e) = {} \/ to.role = staff[e].role)
  BY <1>0, <1>2 DEF DirectoryTyped, Leading, Led
<1>3. ASSUME NEW t \in Teams, Led(e) = {t}, leader' = [leader EXCEPT ![t] = NoOne]
      PROVE  Leading'
  <2>1. \A u \in Teams : leader'[u] # e
    BY <1>0, <1>3 DEF DirectoryTyped, Led
  <2>2. \A u \in Teams : leader'[u] # NoOne => leader'[u] = leader[u] /\ staff'[leader[u]] = staff[leader[u]]
    BY <1>3, <2>1 DEF DirectoryTyped
  <2>. QED  BY <2>2 DEF DirectoryTyped, Leading
<1>. QED  BY <1>1, <1>2, <1>3

LEMMA LeaderKeeps ==
    ASSUME DirectoryTyped, Leading, NEW t \in Teams, NEW e \in Staff \cup {NoOne},
           e # NoOne => staff[e].role = "TEAM_LEADER" /\ Led(e) \subseteq {t},
           staff' = staff, leader' = [leader EXCEPT ![t] = e]
    PROVE  DirectoryTyped' /\ Leading'
<1>1. DirectoryTyped'
  BY DEF DirectoryTyped
<1>2. Leading'
  BY DEF DirectoryTyped, Leading, Led
<1>. QED  BY <1>1, <1>2

\* Somebody the request being served does not write has the say.
Rules(e) ==
    staff[e].active /\ (staff[e].role = "ADMIN" \/ grants[staff[e].role] \cap {"manage", "status"} # {})

ManagerInv == \E e \in Staff : Rules(e) /\ \A w : todo = << w >> => w.of # e

DirectoryInv == LeadersInv /\ ManagerInv

LEMMA OneCommit ==
    ASSUME NEW w, Perform(<< w >>)
    PROVE  Apply(w) /\ todo = << >> /\ todo' = << >>
BY DEF Perform

LEMMA TwoCommits ==
    ASSUME NEW w, NEW v, Perform(<< w, v >>)
    PROVE  Apply(w) /\ todo = << >> /\ todo' = << v >>
BY DEF Perform

LEMMA OneAndOne ==
    ASSUME NEW w, NEW v
    PROVE  << w >> \o << v >> = << w, v >>
<1>1. << w >> \in Seq({w, v}) /\ << v >> \in Seq({w, v}) /\ << w, v >> \in Seq({w, v})
  OBVIOUS
<1> DEFINE s == << w >> \o << v >>
<1>2. s \in Seq({w, v}) /\ Len(s) = 2 /\ s[1] = w /\ s[2] = v
  BY <1>1, ConcatProperties
<1> HIDE DEF s
<1>3. s = << w, v >>
  BY <1>1, <1>2, SeqEqual
<1>. QED  BY <1>3 DEF s

\* Who asked for a change of another employee goes on having the say.
LEMMA AskerRules ==
    ASSUME DirectoryTyped, NEW by \in Staff, NEW e \in Staff, by # e, May(by, "manage") \/ May(by, "status"),
           NEW to, staff' = [staff EXCEPT ![e] = to], grants' = grants,
           \A w : todo' = << w >> => w.of = e
    PROVE  ManagerInv'
<1>1. Rules(by)
  BY DEF Rules, May
<1>2. staff'[by] = staff[by]
  BY DEF DirectoryTyped
<1>3. Rules(by)'
  BY <1>1, <1>2 DEF Rules
<1>. QED  BY <1>3 DEF ManagerInv

\* A single row that is written, by somebody else.
LEMMA OneRowStep ==
    ASSUME LeadersInv, NEW by \in Staff, NEW e \in Staff, by # e, May(by, "manage") \/ May(by, "status"),
           NEW to \in EmployeeRow, Perform(<< WriteStaff(e, to) >>), grants' = grants,
           to.scope # NoOne => to.role = "QA", to.role = NoOne => ~to.active,
           Led(e) = {} \/ to.role = staff[e].role
    PROVE  DirectoryInv'
<1>1. Apply(WriteStaff(e, to)) /\ todo' = << >>
  BY OneCommit
<1>2. staff' = [staff EXCEPT ![e] = to] /\ leader' = leader
  BY <1>1, StaffWritten DEF LeadersInv
<1>3. DirectoryTyped' /\ Leading'
  BY <1>2, StaffKeeps DEF LeadersInv
<1>4. \A w : todo' # << w >>
  BY <1>1
<1>5. ManagerInv'
  BY <1>2, <1>4, AskerRules DEF LeadersInv
<1>. QED  BY <1>1, <1>3, <1>5 DEF DirectoryInv, LeadersInv

\* The first commit of a new role.
LEMMA RoleCommitted ==
    ASSUME DirectoryTyped, Leading, NEW e \in Staff, NEW role \in StaffRoles, role # staff[e].role,
           NEW w, Apply(w),
           \/ Led(e) = {} /\ w = WriteStaff(e, Moved(e, role))
           \/ \E t \in Teams : Led(e) = {t} /\ w = RoleWithTeam(e, Moved(e, role), t)
    PROVE  DirectoryTyped' /\ Leading' /\ staff' = [staff EXCEPT ![e] = Moved(e, role)]
<1>0. role # NoOne
  BY DirectoryAssumption
<1>1. /\ Moved(e, role) \in EmployeeRow
      /\ Moved(e, role).scope # NoOne => Moved(e, role).role = "QA"
      /\ Moved(e, role).role = NoOne => ~Moved(e, role).active
  BY <1>0, MovedTyped
<1>2. /\ staff' = [staff EXCEPT ![e] = Moved(e, role)]
      /\ \/ leader' = leader /\ Led(e) = {}
         \/ \E t \in Teams : Led(e) = {t} /\ leader' = [leader EXCEPT ![t] = NoOne]
  BY StaffWritten, RoleWithTeamWritten
<1>. QED  BY <1>1, <1>2, StaffKeeps

LEMMA StatusWriteTyped ==
    ASSUME DirectoryTyped, Leading, NEW e \in Staff, Employed(e), NEW active \in BOOLEAN
    PROVE  LET to == [staff[e] EXCEPT !.active = active]
           IN  /\ to \in EmployeeRow /\ to.role = staff[e].role /\ to.role # NoOne
               /\ to.scope # NoOne => to.role = "QA"
<1>1. staff[e] \in EmployeeRow /\ (staff[e].scope # NoOne => staff[e].role = "QA")
  BY DEF DirectoryTyped, Leading
<1>. QED  BY <1>1 DEF EmployeeRow, Employed

LEMMA UpdateEmployeeKeeps ==
    ASSUME DirectoryInv, NEW by \in Staff, NEW e \in Staff, NEW role \in StaffRoles \cup {NoOne},
           NEW active \in BOOLEAN, UpdateEmployee(by, e, role, active)
    PROVE  DirectoryInv'
<1> DEFINE writes == RoleWrites(e, role)
           held == [(IF writes = << >> THEN staff[e] ELSE writes[1].to) EXCEPT !.active = active]
           last == IF active = staff[e].active THEN << >> ELSE << WriteStaff(e, held) >>
<1>1. /\ Employed(e) /\ May(by, "manage") /\ NotOwnLockout(by, e, role, active)
      /\ writes \o last # << >> /\ Perform(writes \o last) /\ grants' = grants
  BY DEF UpdateEmployee
<1>2. DirectoryTyped /\ Leading /\ LeadersInv
  BY DEF DirectoryInv, LeadersInv
<1>3. CASE writes = << >>
  <2>1. held = [staff[e] EXCEPT !.active = active]
    BY <1>3
  <2>2. writes \o last = last
    BY <1>3
  <2>3. active # staff[e].active /\ Perform(<< WriteStaff(e, [staff[e] EXCEPT !.active = active]) >>)
    BY <1>1, <2>1, <2>2
  <2>4. by # e
    BY <1>1, <2>3 DEF NotOwnLockout
  <2>5. LET to == [staff[e] EXCEPT !.active = active]
        IN  /\ to \in EmployeeRow /\ to.role = staff[e].role /\ to.role # NoOne
            /\ to.scope # NoOne => to.role = "QA"
    BY <1>1, <1>2, StatusWriteTyped
  <2>. QED  BY <1>1, <1>2, <2>3, <2>4, <2>5, OneRowStep
<1>4. ASSUME role \notin {NoOne, staff[e].role}, NEW w, writes = << w >>,
             \/ Led(e) = {} /\ w = WriteStaff(e, Moved(e, role))
             \/ \E t \in Teams : Led(e) = {t} /\ w = RoleWithTeam(e, Moved(e, role), t)
      PROVE  DirectoryInv'
  <2>1. by # e
    BY <1>1, <1>4 DEF NotOwnLockout
  <2>2. w.to = Moved(e, role) /\ role \in StaffRoles
    <3>1. \A to : WriteStaff(e, to).to = to
      BY DEF WriteStaff
    <3>2. \A t, to : RoleWithTeam(e, to, t).to = to
      BY DEF RoleWithTeam, WriteLeader
    <3>. QED  BY <1>4, <3>1, <3>2
  <2>3. PICK h : h = held
    OBVIOUS
  <2>4. h = [Moved(e, role) EXCEPT !.active = active]
    BY <1>4, <2>2, <2>3
  <2>5. CASE active = staff[e].active
    <3>1. writes \o last = << w >>
      BY <1>4, <2>5
    <3>2. Apply(w) /\ todo' = << >>
      BY <1>1, <3>1, OneCommit
    <3>3. DirectoryTyped' /\ Leading' /\ staff' = [staff EXCEPT ![e] = Moved(e, role)]
      BY <1>2, <1>4, <2>2, <3>2, RoleCommitted
    <3>4. ManagerInv'
      BY <1>1, <1>2, <2>1, <3>2, <3>3, AskerRules
    <3>. QED  BY <3>2, <3>3, <3>4 DEF DirectoryInv, LeadersInv
  <2>6. CASE active # staff[e].active
    <3>0. last = << WriteStaff(e, h) >>
      BY <2>3, <2>6
    <3> HIDE DEF writes, last
    <3>1. writes \o last = << w, WriteStaff(e, h) >>
      <4>1. writes \o last = << w >> \o << WriteStaff(e, h) >>
        BY <1>4, <3>0
      <4>. QED  BY <4>1, OneAndOne
    <3>2. Apply(w) /\ todo' = << WriteStaff(e, h) >>
      BY <1>1, <3>1, TwoCommits
    <3>3. DirectoryTyped' /\ Leading' /\ staff' = [staff EXCEPT ![e] = Moved(e, role)]
      BY <1>2, <1>4, <2>2, <3>2, RoleCommitted
    <3>4. staff'[e] = Moved(e, role) /\ Moved(e, role).role # NoOne
      BY <1>2, <1>4, <2>2, <3>3, MovedTyped DEF DirectoryTyped
    <3>5. StatusIsLeft(WriteStaff(e, h))'
      BY <2>4, <3>4 DEF StatusIsLeft
    <3>6. \A v : todo' = << v >> => v.of = e
      BY <3>2 DEF WriteStaff
    <3>7. ManagerInv'
      BY <1>1, <1>2, <2>1, <3>3, <3>6, AskerRules
    <3>. QED  BY <3>2, <3>3, <3>5, <3>7 DEF DirectoryInv, LeadersInv
  <2>. QED  BY <2>5, <2>6
<1> HIDE DEF writes
<1>. QED  BY <1>2, <1>3, <1>4, RoleWritesAre DEF writes

LEMMA AssignLeaderKeeps ==
    ASSUME DirectoryInv, NEW by \in Staff, NEW t \in Teams, NEW e \in Staff \cup {NoOne},
           AssignLeader(by, t, e)
    PROVE  DirectoryInv'
<1> DEFINE freed == SetToSeq(Displaced(t, e))
           freeing == [i \in 1..Len(freed) |-> WriteLeader(freed[i], NoOne)]
<1>0. DirectoryTyped /\ Leading /\ (e # NoOne <=> e \in Staff)
  BY DirectoryAssumption DEF DirectoryInv, LeadersInv
<1>1. /\ May(by, "manage")
      /\ e # NoOne => staff[e].role = "TEAM_LEADER"
      /\ Perform(freeing \o << WriteLeader(t, e) >>) /\ grants' = grants
  BY DEF AssignLeader
<1>2. Rules(by)
  BY <1>1 DEF Rules, May
<1>3. ASSUME staff' = staff, \A w : todo' = << w >> => w.of = NoOne PROVE ManagerInv'
  <2>1. Rules(by)'
    BY <1>1, <1>2, <1>3 DEF Rules
  <2>. QED  BY <1>3, <2>1, DirectoryAssumption DEF ManagerInv
<1>4. \A u, v \in Displaced(t, e) : u = v
  BY DEF Displaced, Led, Leading, DirectoryInv, LeadersInv
<1>5. CASE Displaced(t, e) = {}
  <2>1. freed = << >>
    BY <1>5, SmallSetToSeq
  <2>2. freeing = << >>
    BY <2>1
  <2> HIDE DEF freeing
  <2>3. freeing \o << WriteLeader(t, e) >> = << WriteLeader(t, e) >>
    BY <2>2
  <2>4. Apply(WriteLeader(t, e)) /\ todo' = << >>
    BY <1>1, <2>3, OneCommit
  <2>5. staff' = staff /\ leader' = [leader EXCEPT ![t] = e]
    BY <1>0, <2>4, LeaderWritten
  <2>6. e # NoOne => Led(e) \subseteq {t}
    BY <1>5 DEF Displaced
  <2>7. DirectoryTyped' /\ Leading'
    BY <1>0, <1>1, <2>5, <2>6, LeaderKeeps
  <2>8. ManagerInv'
    BY <1>3, <2>4, <2>5
  <2>. QED  BY <2>4, <2>7, <2>8 DEF DirectoryInv, LeadersInv
<1>6. CASE Displaced(t, e) # {}
  <2>1. PICK u \in Teams : Displaced(t, e) = {u} /\ leader[u] = e /\ e # NoOne
    BY <1>4, <1>6 DEF Displaced, Led
  <2>2. freed = << u >>
    BY <2>1, SmallSetToSeq
  <2>3. freeing = << WriteLeader(u, NoOne) >>
    BY <2>2
  <2> HIDE DEF freeing
  <2>4. freeing \o << WriteLeader(t, e) >> = << WriteLeader(u, NoOne), WriteLeader(t, e) >>
    BY <2>3, OneAndOne
  <2>5. Apply(WriteLeader(u, NoOne)) /\ todo' = << WriteLeader(t, e) >>
    BY <1>1, <2>4, TwoCommits
  <2>6. staff' = staff /\ leader' = [leader EXCEPT ![u] = NoOne]
    BY <1>0, <2>5, LeaderWritten
  <2>7. DirectoryTyped' /\ Leading'
    BY <1>0, <2>6, LeaderKeeps
  <2>8. Led(e)' = {}
    BY <1>0, <2>1, <2>6 DEF Led, Leading, DirectoryTyped
  <2>9. TeamIsLeft(WriteLeader(t, e))'
    BY <1>0, <1>1, <2>1, <2>6, <2>8 DEF TeamIsLeft
  <2>10. ManagerInv'
    BY <1>3, <2>5, <2>6 DEF WriteLeader
  <2>. QED  BY <2>5, <2>7, <2>9, <2>10 DEF DirectoryInv, LeadersInv
<1>. QED  BY <1>5, <1>6

LEMMA NextCommitKeeps ==
    ASSUME DirectoryInv, NextCommit
    PROVE  DirectoryInv'
<1>1. PICK w : todo = << w >> /\ (StatusIsLeft(w) \/ TeamIsLeft(w))
  BY DEF NextCommit, DirectoryInv, LeadersInv
<1>2. Apply(w) /\ todo' = << >> /\ grants' = grants
  BY <1>1 DEF NextCommit
<1>3. DirectoryTyped /\ Leading
  BY DEF DirectoryInv, LeadersInv
<1>4. PICK by \in Staff : Rules(by) /\ w.of # by
  BY <1>1 DEF DirectoryInv, ManagerInv
<1>5. CASE StatusIsLeft(w)
  <2>1. PICK e \in Staff, active \in BOOLEAN :
           w = WriteStaff(e, [staff[e] EXCEPT !.active = active]) /\ staff[e].role # NoOne
    BY <1>5 DEF StatusIsLeft
  <2> DEFINE to == [staff[e] EXCEPT !.active = active]
  <2>2. /\ to \in EmployeeRow /\ to.role = staff[e].role /\ to.role # NoOne
        /\ to.scope # NoOne => to.role = "QA"
    BY <1>3, <2>1, StatusWriteTyped DEF Employed
  <2>3. w.of = e /\ w = WriteStaff(e, to)
    BY <2>1 DEF WriteStaff
  <2> HIDE DEF to
  <2>4. staff' = [staff EXCEPT ![e] = to] /\ leader' = leader
    BY <1>2, <1>3, <2>3, StaffWritten
  <2>5. DirectoryTyped' /\ Leading'
    BY <1>3, <2>2, <2>4, StaffKeeps
  <2>6. staff'[by] = staff[by]
    BY <1>3, <1>4, <2>3, <2>4 DEF DirectoryTyped
  <2>7. Rules(by)'
    BY <1>2, <1>4, <2>6 DEF Rules
  <2>. QED  BY <1>2, <2>5, <2>7 DEF DirectoryInv, LeadersInv, ManagerInv
<1>6. CASE TeamIsLeft(w)
  <2>1. PICK t \in Teams, e \in Staff :
           w = WriteLeader(t, e) /\ staff[e].role = "TEAM_LEADER" /\ Led(e) = {}
    BY <1>6 DEF TeamIsLeft
  <2>2. staff' = staff /\ leader' = [leader EXCEPT ![t] = e]
    BY <1>2, <1>3, <2>1, LeaderWritten
  <2>3. DirectoryTyped' /\ Leading'
    BY <1>3, <2>1, <2>2, LeaderKeeps
  <2>4. Rules(by)'
    BY <1>2, <1>4, <2>2 DEF Rules
  <2>. QED  BY <1>2, <2>3, <2>4 DEF DirectoryInv, LeadersInv, ManagerInv
<1>. QED  BY <1>1, <1>5, <1>6

LEMMA StepDirectory == DirectoryInv /\ [DirectoryNext]_directoryVars => DirectoryInv'
<1>. SUFFICES ASSUME DirectoryInv, [DirectoryNext]_directoryVars PROVE DirectoryInv'
  OBVIOUS
<1>0. DirectoryTyped /\ Leading /\ LeadersInv /\ NoOne \notin StaffRoles /\ NoOne \notin Staff
  BY DirectoryAssumption DEF DirectoryInv, LeadersInv
<1>1. CASE NextCommit  BY <1>1, NextCommitKeeps
<1>2. CASE ApiDies
  <2>1. todo' = << >> /\ UNCHANGED << staff, leader, grants >>
    BY <1>2 DEF ApiDies
  <2>2. DirectoryTyped' /\ Leading'
    BY <1>0, <2>1 DEF DirectoryTyped, Leading
  <2>3. ManagerInv'
    BY <2>1 DEF DirectoryInv, ManagerInv, Rules
  <2>. QED  BY <2>1, <2>2, <2>3 DEF DirectoryInv, LeadersInv
<1>3. ASSUME NEW by \in Staff, NEW e \in Staff, NEW active \in BOOLEAN, NEW role \in StaffRoles,
             CreateEmployee(by, e, role, active)
      PROVE  DirectoryInv'
  <2> DEFINE to == [role |-> role, active |-> active, scope |-> NoOne]
  <2>1. to \in EmployeeRow /\ to.scope = NoOne /\ to.role # NoOne
    BY <1>0 DEF EmployeeRow
  <2>2. /\ May(by, "manage") /\ staff[e].role = NoOne /\ Perform(<< WriteStaff(e, to) >>)
        /\ grants' = grants
    BY <1>3 DEF CreateEmployee, Employed
  <2>3. by # e
    BY <1>0, <2>2 DEF DirectoryTyped, May
  <2>4. Led(e) = {}
    BY <1>0, <2>2 DEF Led, Leading, StaffRoles
  <2> HIDE DEF to
  <2>. QED  BY <1>0, <2>1, <2>2, <2>3, <2>4, OneRowStep
<1>4. ASSUME NEW by \in Staff, NEW e \in Staff, NEW active \in BOOLEAN, UpdateStatus(by, e, active)
      PROVE  DirectoryInv'
  <2>1. /\ Employed(e) /\ May(by, "status") /\ by # e /\ grants' = grants
        /\ Perform(<< WriteStaff(e, [staff[e] EXCEPT !.active = active]) >>)
    BY <1>4 DEF UpdateStatus, NotOwnLockout
  <2>2. LET to == [staff[e] EXCEPT !.active = active]
        IN  /\ to \in EmployeeRow /\ to.role = staff[e].role /\ to.role # NoOne
            /\ to.scope # NoOne => to.role = "QA"
    BY <1>0, <2>1, StatusWriteTyped
  <2>. QED  BY <1>0, <2>1, <2>2, OneRowStep
<1>5. ASSUME NEW by \in Staff, NEW e \in Staff, NEW t \in Teams \cup {NoOne}, UpdateQaScope(by, e, t)
      PROVE  DirectoryInv'
  <2> DEFINE to == [staff[e] EXCEPT !.scope = t]
  <2>1. /\ May(by, "manage") /\ staff[e].role = "QA" /\ Perform(<< WriteStaff(e, to) >>)
        /\ grants' = grants
    BY <1>5 DEF UpdateQaScope
  <2>2. staff[e] \in EmployeeRow
    BY <1>0 DEF DirectoryTyped
  <2>3. /\ to \in EmployeeRow /\ to.role = "QA" /\ to.active = staff[e].active
    BY <2>1, <2>2 DEF EmployeeRow
  <2>4. to.role # NoOne
    BY <1>0, <2>3 DEF StaffRoles
  <2> HIDE DEF to
  <2>5. Apply(WriteStaff(e, to)) /\ todo' = << >>
    BY <2>1, OneCommit
  <2>6. staff' = [staff EXCEPT ![e] = to] /\ leader' = leader
    BY <1>0, <2>5, StaffWritten
  <2>7. DirectoryTyped' /\ Leading'
    BY <1>0, <2>1, <2>3, <2>4, <2>6, StaffKeeps
  <2>8. staff'[by].role = staff[by].role /\ staff'[by].active = staff[by].active
    BY <1>0, <2>1, <2>3, <2>6 DEF DirectoryTyped
  <2>9. Rules(by)'
    BY <2>1, <2>8 DEF Rules, May
  <2>. QED  BY <2>5, <2>7, <2>9 DEF DirectoryInv, LeadersInv, ManagerInv
<1>6. ASSUME NEW by \in Staff, NEW role, NEW perms, UpdateRolePermissions(by, role, perms)
      PROVE  DirectoryInv'
  <2>1. /\ staff[by].role = "ADMIN" /\ staff[by].active /\ todo = << >>
        /\ UNCHANGED << staff, leader, todo >>
    BY <1>6 DEF UpdateRolePermissions
  <2>2. DirectoryTyped' /\ Leading'
    BY <1>0, <2>1 DEF DirectoryTyped, Leading
  <2>3. Rules(by)'
    BY <2>1 DEF Rules
  <2>. QED  BY <2>1, <2>2, <2>3 DEF DirectoryInv, LeadersInv, ManagerInv
<1>7. CASE UNCHANGED directoryVars
  <2>1. UNCHANGED << staff, leader, grants, todo >>
    BY <1>7 DEF directoryVars
  <2>2. DirectoryTyped' /\ Leading'
    BY <1>0, <2>1 DEF DirectoryTyped, Leading
  <2>3. ManagerInv'
    BY <2>1 DEF DirectoryInv, ManagerInv, Rules
  <2>4. todo' = << >> \/ \E w : todo' = << w >> /\ (StatusIsLeft(w) \/ TeamIsLeft(w))'
    BY <1>0, <2>1 DEF LeadersInv, StatusIsLeft, TeamIsLeft, Led
  <2>. QED  BY <2>2, <2>3, <2>4 DEF DirectoryInv, LeadersInv
<1>. QED
  BY <1>1, <1>2, <1>3, <1>4, <1>5, <1>6, <1>7, UpdateEmployeeKeeps, AssignLeaderKeeps DEF DirectoryNext

LEMMA InitDirectory == DirectoryInit => DirectoryInv
<1>. SUFFICES ASSUME DirectoryInit PROVE DirectoryInv
  OBVIOUS
<1>0. NoOne \notin Staff /\ FirstAdmin \in Staff /\ NoOne \notin StaffRoles
  BY DirectoryAssumption
<1>1. Absent \in EmployeeRow /\ Absent.role = NoOne /\ Absent.active = FALSE /\ Absent.scope = NoOne
  BY DEF Absent, EmployeeRow
<1> DEFINE first == [Absent EXCEPT !.role = "ADMIN", !.active = TRUE]
<1>2. first \in EmployeeRow /\ first.role = "ADMIN" /\ first.active = TRUE /\ first.scope = NoOne
  BY <1>1 DEF EmployeeRow, StaffRoles
<1>3. staff = [e \in Staff |-> IF e = FirstAdmin THEN first ELSE Absent]
  BY DEF DirectoryInit
<1> HIDE DEF first
<1>4. DirectoryTyped
  <2>1. staff \in [Staff -> EmployeeRow]
    BY <1>1, <1>2, <1>3
  <2>2. leader \in [Teams -> Staff \cup {NoOne}]
    BY DEF DirectoryInit
  <2>3. \A e \in Staff : staff[e].role = NoOne => ~staff[e].active
    BY <1>0, <1>1, <1>2, <1>3 DEF StaffRoles
  <2>. QED  BY <2>1, <2>2, <2>3 DEF DirectoryTyped
<1>5. Leading
  BY <1>1, <1>2, <1>3 DEF DirectoryInit, Leading
<1>6. todo = << >> /\ Rules(FirstAdmin)
  BY <1>0, <1>2, <1>3 DEF DirectoryInit, Rules
<1>. QED  BY <1>0, <1>4, <1>5, <1>6 DEF DirectoryInv, LeadersInv, ManagerInv

\* For any employees and teams, after every commit and every death of the API: a team is led
\* by a team leader, nobody leads two, and only QA has a scope.
THEOREM LeadersLead == DirectorySpec => []LeadershipFollowsRole
<1>1. DirectoryInv => LeadershipFollowsRole
  <2>. SUFFICES ASSUME DirectoryInv PROVE LeadershipFollowsRole
    OBVIOUS
  <2>1. Leading /\ NoOne \notin Staff
    BY DirectoryAssumption DEF DirectoryInv, LeadersInv
  <2>2. ASSUME NEW e \in Staff PROVE Cardinality(Led(e)) <= 1
    <3>1. \A t, u \in Led(e) : t = u
      BY <2>1 DEF Leading, Led
    <3>. QED  BY <3>1, AtMostOne
  <2>. QED  BY <2>1, <2>2 DEF Leading, LeadershipFollowsRole
<1>. QED  BY <1>1, InitDirectory, StepDirectory, PTL DEF DirectorySpec

\* For any employees, roles and grants: somebody who can log in can still change accounts.
THEOREM ManagersRemain == DirectorySpec => []SomebodyManages
<1>1. DirectoryInv => SomebodyManages
  BY DEF DirectoryInv, ManagerInv, Rules, SomebodyManages
<1>. QED  BY <1>1, InitDirectory, StepDirectory, PTL DEF DirectorySpec

----------------------------------------------------------------------------
(* Recursion over positions: a function that a recursion equation defines   *)
(* exists, and what passes from each of its values to the next holds of all. *)

\* What holds of 0 and passes from each number to the next holds up to n.
LEMMA UpTo ==
    ASSUME NEW n \in Nat, NEW S, 0 \in S, \A i \in 0..(n - 1) : i \in S => i + 1 \in S
    PROVE  \A i \in 0..n : i \in S
<1> DEFINE T == {i \in 0..n : i \notin S}
<1>. SUFFICES ASSUME T # {} PROVE FALSE
  OBVIOUS
<1>1. T \subseteq Nat
  OBVIOUS
<1>2. PICK t \in T : \A u \in T : ~ << u, t >> \in OpToRel(<, Nat)
  BY <1>1, NatLessThanWellFounded, WFMin
<1>3. t \in 0..n /\ t \notin S /\ t # 0 /\ t - 1 \in 0..(n - 1)
  OBVIOUS
<1>4. t - 1 \notin S
  BY <1>3
<1>5. t - 1 \in T /\ << t - 1, t >> \in OpToRel(<, Nat)
  BY <1>3, <1>4 DEF OpToRel
<1>. QED  BY <1>2, <1>5

----------------------------------------------------------------------------
(* Violations. *)

ViolationsSpec == ViolationsInit /\ [][ViolationsNext]_violationVars

ViolationRow == [kind : Kinds, call : CallIds, occurrence : Nat, flagged : BOOLEAN, qa : BOOLEAN, hr : BOOLEAN]
Evaluation == [call : CallIds \cup {Idle}, listed : BOOLEAN, rows : Seq(ViolationRow)]

\* What a worker has numbered alone and not committed continues each kind by one.
Continues(numbered) ==
    /\ \A i, j \in DOMAIN numbered : numbered[i].kind = numbered[j].kind => i = j
    /\ \A i \in DOMAIN numbered : /\ numbered[i].occurrence = Occurrence(numbered[i].kind)
                                  /\ numbered[i].flagged = Flagged(numbered[i].kind, numbered[i].occurrence)

NumberedAlone ==
    ~mingled /\ ~thinned =>
      /\ \A i \in DOMAIN violations : /\ violations[i].occurrence = Turn(i)
                                      /\ violations[i].flagged = Flagged(violations[i].kind, Turn(i))
      /\ \A v, w \in Workers : evaluating[v].listed /\ evaluating[w].listed => v = w
      /\ \A w \in Workers : evaluating[w].listed => Continues(evaluating[w].rows)

\* What a worker has numbered is not ahead of the rows there are.
NotAhead(numbered) == \A i \in DOMAIN numbered : numbered[i].occurrence <= Occurrence(numbered[i].kind)

\* Whoever numbers beside whom, nobody is ahead of the rows there are.
NumberedNotAbove ==
    ~thinned =>
      /\ \A i \in DOMAIN violations : violations[i].occurrence <= Turn(i)
      /\ \A w \in Workers : evaluating[w].listed => NotAhead(evaluating[w].rows)

ViolationsInv ==
    /\ violations \in Seq(ViolationRow) /\ evaluating \in [Workers -> Evaluation] /\ mingled \in BOOLEAN /\ thinned \in BOOLEAN
    /\ \A w \in Workers : evaluating[w].listed => evaluating[w].call # Idle
    /\ \A i \in DOMAIN violations : violations[i].hr => violations[i].qa
    /\ \A w \in Workers : \A i \in DOMAIN evaluating[w].rows : ~evaluating[w].rows[i].hr
    /\ NumberedAlone /\ NumberedNotAbove

LEMMA RowsOf ==
    ASSUME NEW numbered \in Seq(ViolationRow)
    PROVE  /\ Len(numbered) \in Nat /\ DOMAIN numbered = 1..Len(numbered)
           /\ \A i \in DOMAIN numbered : numbered[i] \in ViolationRow
BY LenProperties, ElementOfSeq

LEMMA Counted ==
    ASSUME NEW n \in Nat, NEW S, S \subseteq 1..n
    PROVE  IsFiniteSet(S) /\ Cardinality(S) \in Nat
<1>1. IsFiniteSet(1..n)
  BY FS_Interval
<1>2. IsFiniteSet(S)
  BY <1>1, FS_Subset
<1>. QED  BY <1>2, FS_CardinalityType

\* The row after some others is the one after those of its kind.
LEMMA CountedNext ==
    ASSUME NEW n \in Nat, NEW S, S \subseteq 1..n, NEW k \in Nat, k > n
    PROVE  Cardinality(S \cup {k}) = Cardinality(S) + 1
<1>1. IsFiniteSet(S)
  BY Counted
<1>2. k \notin S
  OBVIOUS
<1>. QED  BY <1>1, <1>2, FS_AddElement

LEMMA CountedWithin ==
    ASSUME NEW n \in Nat, NEW S, NEW T, S \subseteq T, T \subseteq 1..n
    PROVE  Cardinality(S) <= Cardinality(T)
BY Counted, FS_Subset

\* rest holds what is left of the first i rows, for each i up to n.
RestUpTo(rest, call, n) ==
    rest = [i \in 0..n |-> IF i = 0 THEN << >>
                           ELSE IF violations[i].call = call THEN rest[i - 1]
                                ELSE Append(rest[i - 1], violations[i])]

LEMMA WithoutDef ==
    ASSUME NEW call, Len(violations) \in Nat
    PROVE  \E f : RestUpTo(f, call, Len(violations)) /\ Without(call) = f[Len(violations)]
<1> DEFINE S == {i \in Nat : \E f : RestUpTo(f, call, i)}
           F == CHOOSE f : RestUpTo(f, call, Len(violations))
           Nxt(s, i) == IF violations[i].call = call THEN s ELSE Append(s, violations[i])
<1>1. 0 \in S
  <2>. DEFINE f == [i \in 0..0 |-> << >>]
  <2>1. RestUpTo(f, call, 0)
    BY DEF RestUpTo
  <2>. QED  BY <2>1
<1>2. ASSUME NEW i \in 0..(Len(violations) - 1), i \in S PROVE i + 1 \in S
  <2>1. PICK f : RestUpTo(f, call, i)
    BY <1>2
  <2>. DEFINE g == [j \in 0..(i + 1) |-> IF j = i + 1 THEN Nxt(f[i], i + 1) ELSE f[j]]
  <2>2. i \in Nat /\ i + 1 \in Nat
    OBVIOUS
  <2>3. DOMAIN f = 0..i /\ \A j \in 0..i : f[j] = IF j = 0 THEN << >> ELSE Nxt(f[j - 1], j)
    <3>. DEFINE rhs == [j \in 0..i |-> IF j = 0 THEN << >> ELSE Nxt(f[j - 1], j)]
    <3>1. f = rhs
      BY <2>1 DEF RestUpTo
    <3>2. DOMAIN rhs = 0..i /\ \A j \in 0..i : rhs[j] = IF j = 0 THEN << >> ELSE Nxt(f[j - 1], j)
      OBVIOUS
    <3>. HIDE DEF rhs, Nxt
    <3>. QED  BY <3>1, <3>2
  <2>4. \A j \in 0..i : g[j] = f[j]
    BY <2>2
  <2>5. g[i + 1] = Nxt(g[i], i + 1)
    BY <2>2, <2>4
  <2>6. DOMAIN g = 0..(i + 1)
    OBVIOUS
  <2>7. \A j \in 0..(i + 1) : g[j] = IF j = 0 THEN << >> ELSE Nxt(g[j - 1], j)
    <3>. SUFFICES ASSUME NEW j \in 0..(i + 1)
                  PROVE  g[j] = IF j = 0 THEN << >> ELSE Nxt(g[j - 1], j)
      OBVIOUS
    <3>. HIDE DEF g, Nxt
    <3>1. CASE j = i + 1
      <4>1. j # 0 /\ j - 1 = i
        BY <3>1, <2>2
      <4>. QED  BY <4>1, <3>1, <2>5
    <3>2. CASE j # i + 1
      <4>1. j \in 0..i /\ (j # 0 => j - 1 \in 0..i)
        BY <3>2, <2>2
      <4>2. g[j] = f[j] /\ (j # 0 => g[j - 1] = f[j - 1])
        BY <4>1, <2>4
      <4>. QED  BY <4>1, <4>2, <2>3
    <3>. QED  BY <3>1, <3>2
  <2>8. g = [j \in 0..(i + 1) |-> g[j]]
    BY <2>6
  <2>. HIDE DEF g
  <2>9. RestUpTo(g, call, i + 1)
    BY <2>6, <2>7, <2>8 DEF RestUpTo
  <2>. QED  BY <2>9, <2>2
<1>. HIDE DEF S
<1>3. Len(violations) \in S
  <2>1. \A i \in 0..Len(violations) : i \in S
    BY <1>1, <1>2, UpTo, Zenon
  <2>. QED  BY <2>1
<1>4. RestUpTo(F, call, Len(violations))
  BY <1>3 DEF S
<1>5. Without(call) = F[Len(violations)]
  BY DEF Without, RestUpTo
<1>. QED  BY <1>4, <1>5

LEMMA WithoutOneByOne ==
    ASSUME NEW call, Len(violations) \in Nat
    PROVE  \E f : /\ f[0] = << >> /\ Without(call) = f[Len(violations)]
                  /\ \A i \in 0..(Len(violations) - 1) :
                       f[i + 1] = IF violations[i + 1].call = call THEN f[i] ELSE Append(f[i], violations[i + 1])
<1> DEFINE Nxt(s, i) == IF violations[i].call = call THEN s ELSE Append(s, violations[i])
           n == Len(violations)
<1>1. PICK f : RestUpTo(f, call, n) /\ Without(call) = f[n]
  BY WithoutDef
<1>2. f = [i \in 0..n |-> IF i = 0 THEN << >> ELSE Nxt(f[i - 1], i)]
  BY <1>1 DEF RestUpTo
<1>3. \A i \in 0..(n - 1) : i + 1 \in 0..n /\ i + 1 # 0 /\ (i + 1) - 1 = i
  OBVIOUS
<1>4. 0 \in 0..n
  OBVIOUS
<1> HIDE DEF n
<1>5. \A i \in 0..n : f[i] = IF i = 0 THEN << >> ELSE Nxt(f[i - 1], i)
  <2> HIDE DEF Nxt
  <2>. QED  BY <1>2, Zenon
<1>6. f[0] = << >>
  BY <1>4, <1>5
<1>7. \A i \in 0..(n - 1) : f[i + 1] = Nxt(f[i], i + 1)
  <2> HIDE DEF Nxt
  <2>. QED  BY <1>3, <1>5, Zenon
<1>. QED  BY <1>1, <1>6, <1>7 DEF n

\* What a deletion leaves are rows that were there.
LEMMA WithoutKeeps ==
    ASSUME NEW call, violations \in Seq(ViolationRow)
    PROVE  /\ Without(call) \in Seq(ViolationRow)
           /\ \A k \in DOMAIN Without(call) : \E j \in DOMAIN violations : Without(call)[k] = violations[j]
<1> DEFINE n == Len(violations)
           Kept(s) == /\ s \in Seq(ViolationRow)
                      /\ \A k \in DOMAIN s : \E j \in DOMAIN violations : s[k] = violations[j]
<1>0. n \in Nat /\ DOMAIN violations = 1..n /\ \A j \in DOMAIN violations : violations[j] \in ViolationRow
  BY RowsOf
<1>1. PICK f : /\ f[0] = << >> /\ Without(call) = f[n]
               /\ \A i \in 0..(n - 1) :
                    f[i + 1] = IF violations[i + 1].call = call THEN f[i] ELSE Append(f[i], violations[i + 1])
  BY <1>0, WithoutOneByOne
<1> HIDE DEF n
<1> DEFINE S == {i \in 0..n : Kept(f[i])}
<1>2. 0 \in S
  <2>1. << >> \in Seq(ViolationRow) /\ DOMAIN << >> = {}
    OBVIOUS
  <2>2. Kept(f[0])
    BY <2>1, <1>1
  <2>. QED  BY <2>2, <1>0
<1>3. ASSUME NEW i \in 0..(n - 1), i \in S PROVE i + 1 \in S
  <2>1. PICK s : s = f[i]
    OBVIOUS
  <2>2. Kept(s) /\ i + 1 \in 1..n /\ i + 1 \in 0..n
    BY <1>0, <1>3, <2>1
  <2>3. CASE violations[i + 1].call = call
    BY <2>1, <2>2, <2>3, <1>1
  <2>4. CASE violations[i + 1].call # call
    <3>1. f[i + 1] = Append(s, violations[i + 1]) /\ violations[i + 1] \in ViolationRow
      BY <1>0, <1>1, <2>1, <2>2, <2>4
    <3>2. /\ Append(s, violations[i + 1]) \in Seq(ViolationRow)
          /\ DOMAIN Append(s, violations[i + 1]) = 1..(Len(s) + 1) /\ Len(s) \in Nat /\ DOMAIN s = 1..Len(s)
          /\ \A k \in 1..Len(s) : Append(s, violations[i + 1])[k] = s[k]
          /\ Append(s, violations[i + 1])[Len(s) + 1] = violations[i + 1]
      BY <3>1, <2>2, AppendProperties, LenProperties
    <3>3. Kept(f[i + 1])
      BY <1>0, <2>2, <3>1, <3>2
    <3>. QED  BY <3>3, <2>2
  <2>. QED  BY <2>3, <2>4
<1>4. n \in S
  <2> HIDE DEF S
  <2>1. \A i \in 0..n : i \in S
    BY <1>0, <1>2, <1>3, UpTo, Zenon
  <2>. QED  BY <2>1, <1>0
<1>. QED  BY <1>1, <1>4

\* A deletion of the last rows leaves the rows before them in their places.
LEMMA WithoutTheLast ==
    ASSUME NEW call, violations \in Seq(ViolationRow),
           \A i, j \in DOMAIN violations : violations[i].call = call /\ i < j => violations[j].call = call
    PROVE  /\ Len(Without(call)) <= Len(violations)
           /\ \A k \in DOMAIN Without(call) : Without(call)[k] = violations[k]
           /\ (\A i \in DOMAIN violations : violations[i].call # call) => Without(call) = violations
<1> DEFINE n == Len(violations)
           Begins(s, i) == /\ s \in Seq(ViolationRow) /\ Len(s) <= i /\ \A k \in 1..Len(s) : s[k] = violations[k]
                           /\ Len(s) < i => violations[i].call = call
<1>0. n \in Nat /\ DOMAIN violations = 1..n /\ \A j \in DOMAIN violations : violations[j] \in ViolationRow
  BY RowsOf
<1>1. PICK f : /\ f[0] = << >> /\ Without(call) = f[n]
               /\ \A i \in 0..(n - 1) :
                    f[i + 1] = IF violations[i + 1].call = call THEN f[i] ELSE Append(f[i], violations[i + 1])
  BY <1>0, WithoutOneByOne
<1> HIDE DEF n
<1> DEFINE S == {i \in 0..n : Begins(f[i], i)}
<1>2. 0 \in S
  <2>1. << >> \in Seq(ViolationRow) /\ Len(<< >>) = 0
    BY EmptySeq
  <2>2. Begins(f[0], 0)
    BY <2>1, <1>1
  <2>. QED  BY <2>2, <1>0
<1>3. ASSUME NEW i \in 0..(n - 1), i \in S PROVE i + 1 \in S
  <2>1. PICK s : s = f[i]
    OBVIOUS
  <2>2. Begins(s, i) /\ i \in Nat /\ i + 1 \in 1..n /\ i + 1 \in 0..n /\ Len(s) \in Nat
    BY <1>0, <1>3, <2>1, LenProperties
  <2>3. CASE violations[i + 1].call = call
    <3>1. f[i + 1] = s
      BY <2>1, <2>3, <1>1
    <3>2. Begins(s, i + 1)
      BY <2>2, <2>3
    <3>. QED  BY <3>1, <3>2, <2>2
  <2>4. CASE violations[i + 1].call # call
    <3>1. f[i + 1] = Append(s, violations[i + 1]) /\ violations[i + 1] \in ViolationRow
      BY <1>0, <1>1, <2>1, <2>2, <2>4
    <3>2. Len(s) = i
      <4>1. SUFFICES ASSUME Len(s) < i PROVE FALSE
        BY <2>2
      <4>2. i \in DOMAIN violations /\ i + 1 \in DOMAIN violations /\ i < i + 1
        BY <4>1, <2>2, <1>0
      <4>. QED  BY <4>1, <4>2, <2>2, <2>4
    <3>3. /\ Append(s, violations[i + 1]) \in Seq(ViolationRow)
          /\ Len(Append(s, violations[i + 1])) = i + 1
          /\ \A k \in 1..i : Append(s, violations[i + 1])[k] = s[k]
          /\ Append(s, violations[i + 1])[i + 1] = violations[i + 1]
      BY <3>1, <3>2, <2>2, AppendProperties
    <3>4. \A k \in 1..(i + 1) : Append(s, violations[i + 1])[k] = violations[k]
      BY <2>2, <3>2, <3>3
    <3>5. Begins(f[i + 1], i + 1)
      BY <2>2, <3>1, <3>3, <3>4
    <3>. QED  BY <3>5, <2>2
  <2>. QED  BY <2>3, <2>4
<1>4. n \in S
  <2> HIDE DEF S
  <2>1. \A i \in 0..n : i \in S
    BY <1>0, <1>2, <1>3, UpTo, Zenon
  <2>. QED  BY <2>1, <1>0
<1>5. PICK s : s = Without(call)
  OBVIOUS
<1>6. Begins(s, n)
  BY <1>1, <1>4, <1>5
<1>7. DOMAIN s = 1..Len(s) /\ Len(s) \in Nat
  BY <1>6, LenProperties
<1>8. ASSUME \A i \in DOMAIN violations : violations[i].call # call PROVE s = violations
  <2>1. Len(s) = n
    <3>1. ~(Len(s) < n)
      <4>1. ASSUME Len(s) < n PROVE n \in DOMAIN violations
        BY <1>0, <1>7, <4>1
      <4>. QED  BY <1>6, <1>8, <4>1
    <3>2. Len(s) <= n
      BY <1>6
    <3>3. Len(s) \in Nat /\ n \in Nat
      BY <1>0, <1>7
    <3>. QED  BY <3>1, <3>2, <3>3
  <2>. QED  BY <1>0, <1>6, <1>7, <2>1, SeqEqual DEF n
<1>. QED  BY <1>5, <1>6, <1>7, <1>8 DEF n

\* A step that adds no rows and leaves each row's kind, number and flag leaves the turns.
LEMMA TurnsStay ==
    ASSUME NEW i \in Nat, \A j \in 1..i : violations'[j].kind = violations[j].kind
    PROVE  Turn(i)' = Turn(i)
<1>1. CASE i = 0
  BY <1>1 DEF Turn
<1>2. CASE i # 0
  <2>1. {j \in 1..i : violations'[j].kind = violations'[i].kind}
          = {j \in 1..i : violations[j].kind = violations[i].kind}
    OBVIOUS
  <2>. QED  BY <2>1 DEF Turn
<1>. QED  BY <1>1, <1>2

\* What a worker has numbered goes on continuing the rows while they stay.
LEMMA ContinuesStays ==
    ASSUME NEW v \in Workers, Continues(evaluating[v].rows),
           evaluating'[v].rows = evaluating[v].rows, violations' = violations
    PROVE  Continues(evaluating[v].rows)'
<1>1. \A kind : Occurrence(kind)' = Occurrence(kind)
  BY DEF Occurrence
<1>. QED  BY <1>1 DEF Continues, Flagged, Tier

\* An approval, of any row by anybody, leaves the numbering.
LEMMA ApprovalKeeps ==
    ASSUME ViolationsInv, UNCHANGED << evaluating, mingled, thinned >>,
           violations' \in Seq(ViolationRow), DOMAIN violations' = DOMAIN violations,
           \A i \in DOMAIN violations : /\ violations'[i].kind = violations[i].kind
                                        /\ violations'[i].occurrence = violations[i].occurrence
                                        /\ violations'[i].flagged = violations[i].flagged
                                        /\ violations'[i].hr => violations'[i].qa
    PROVE  ViolationsInv'
<1>0. Len(violations) \in Nat /\ DOMAIN violations = 1..Len(violations)
  BY RowsOf DEF ViolationsInv
<1>1. \A i \in DOMAIN violations : Turn(i)' = Turn(i)
  BY <1>0, TurnsStay
<1>2. \A kind : Occurrence(kind)' = Occurrence(kind)
  <2>. TAKE kind
  <2>1. {i \in DOMAIN violations' : violations'[i].kind = kind}
          = {i \in DOMAIN violations : violations[i].kind = kind}
    OBVIOUS
  <2>. QED  BY <2>1 DEF Occurrence
<1>3. NumberedAlone'
  BY <1>1, <1>2 DEF ViolationsInv, NumberedAlone, Continues, Flagged, Tier
<1>4. NumberedNotAbove'
  BY <1>1, <1>2 DEF ViolationsInv, NumberedNotAbove, NotAhead
<1>. QED  BY <1>3, <1>4 DEF ViolationsInv

LEMMA StepTakeCall ==
    ASSUME ViolationsInv, NEW w \in Workers, NEW call \in CallIds, TakeCall(w, call)
    PROVE  ViolationsInv'
<1> DEFINE taken == [evaluating[w] EXCEPT !.call = call]
<1>0. /\ Len(violations) \in Nat /\ DOMAIN violations = 1..Len(violations)
      /\ violations \in Seq(ViolationRow) /\ evaluating \in [Workers -> Evaluation]
  BY RowsOf DEF ViolationsInv
<1>1. /\ violations' = Without(call) /\ evaluating' = [evaluating EXCEPT ![w] = taken]
      /\ evaluating[w].call = Idle /\ ~evaluating[w].listed
      /\ mingled' = mingled
      /\ thinned' = (thinned \/ \E i \in DOMAIN violations :
                       /\ violations[i].call = call
                       /\ \/ \E j \in DOMAIN violations : i < j /\ violations[j].call # call
                          \/ \E v \in Workers : evaluating[v].listed)
  BY DEF TakeCall, ViolationsInv
<1>2. /\ taken \in Evaluation /\ taken.call = call /\ taken.listed = evaluating[w].listed
      /\ taken.rows = evaluating[w].rows
  BY <1>0 DEF Evaluation
<1>. HIDE DEF taken
<1>3. /\ evaluating' \in [Workers -> Evaluation]
      /\ \A v \in Workers : /\ evaluating'[v].listed = evaluating[v].listed
                            /\ evaluating'[v].rows = evaluating[v].rows
      /\ \A v \in Workers : evaluating'[v].listed => evaluating'[v] = evaluating[v]
  BY <1>0, <1>1, <1>2
<1>4. /\ violations' \in Seq(ViolationRow)
      /\ \A k \in DOMAIN violations' : \E j \in DOMAIN violations : violations'[k] = violations[j]
  BY <1>0, <1>1, WithoutKeeps
<1>5. mingled' \in BOOLEAN /\ thinned' \in BOOLEAN
  BY <1>1 DEF ViolationsInv
<1>6. ASSUME ~thinned' PROVE NumberedNotAbove' /\ (~mingled' => NumberedAlone')
  <2>1. /\ ~thinned
        /\ \A i, j \in DOMAIN violations : violations[i].call = call /\ i < j => violations[j].call = call
        /\ (\E v \in Workers : evaluating[v].listed) => \A i \in DOMAIN violations : violations[i].call # call
    BY <1>1, <1>6
  <2>2. /\ \A k \in DOMAIN Without(call) : Without(call)[k] = violations[k]
        /\ Len(Without(call)) <= Len(violations)
        /\ (\E v \in Workers : evaluating[v].listed) => Without(call) = violations
    BY <1>0, <2>1, WithoutTheLast
  <2>3. Len(violations') \in Nat /\ DOMAIN violations' = 1..Len(violations')
    BY <1>4, RowsOf
  <2>4. /\ \A k \in DOMAIN violations' : k \in DOMAIN violations /\ violations'[k] = violations[k]
        /\ (\E v \in Workers : evaluating[v].listed) => violations' = violations
    BY <1>0, <1>1, <2>2, <2>3
  <2>5. \A k \in DOMAIN violations' : Turn(k)' = Turn(k)
    BY <2>3, <2>4, TurnsStay
  <2>6. ASSUME ~mingled' PROVE NumberedAlone'
    <3>1. ~mingled
      BY <1>1, <2>6
    <3>2. \A k \in DOMAIN violations' : /\ violations'[k].occurrence = Turn(k)'
                                        /\ violations'[k].flagged = Flagged(violations'[k].kind, Turn(k)')
      BY <2>1, <2>4, <2>5, <3>1 DEF ViolationsInv, NumberedAlone
    <3>3. ASSUME NEW v \in Workers, evaluating'[v].listed PROVE Continues(evaluating[v].rows)'
      <4>1. evaluating[v].listed /\ evaluating'[v].rows = evaluating[v].rows /\ violations' = violations
        BY <1>3, <2>4, <3>3
      <4>2. Continues(evaluating[v].rows)
        BY <2>1, <3>1, <4>1 DEF ViolationsInv, NumberedAlone
      <4>. QED  BY <4>1, <4>2, ContinuesStays
    <3>4. \A u, v \in Workers : evaluating'[u].listed /\ evaluating'[v].listed => u = v
      BY <1>3, <2>1, <3>1 DEF ViolationsInv, NumberedAlone
    <3>. QED  BY <3>2, <3>3, <3>4 DEF NumberedAlone, Flagged, Tier
  <2>7. \A k \in DOMAIN violations' : violations'[k].occurrence <= Turn(k)'
    BY <2>1, <2>4, <2>5 DEF ViolationsInv, NumberedNotAbove
  <2>8. ASSUME NEW v \in Workers, evaluating'[v].listed
        PROVE  NotAhead(evaluating[v].rows)'
    <3>1. evaluating[v].listed /\ evaluating'[v].rows = evaluating[v].rows /\ violations' = violations
      BY <1>3, <2>4, <2>8
    <3>2. NotAhead(evaluating[v].rows)
      BY <2>1, <3>1 DEF ViolationsInv, NumberedNotAbove
    <3>3. \A kind : Occurrence(kind)' = Occurrence(kind)
      BY <3>1 DEF Occurrence
    <3>. QED  BY <3>1, <3>2, <3>3 DEF NotAhead
  <2>. QED  BY <2>6, <2>7, <2>8 DEF NumberedNotAbove
<1>7. NumberedAlone' /\ NumberedNotAbove'
  BY <1>6 DEF NumberedAlone, NumberedNotAbove
<1>8. \A v \in Workers : evaluating'[v].listed => evaluating'[v].call # Idle
  BY <1>3 DEF ViolationsInv
<1>. QED  BY <1>3, <1>4, <1>5, <1>7, <1>8 DEF ViolationsInv

LEMMA StepApply ==
    ASSUME ViolationsInv, NEW w \in Workers, NEW listed \in Listings, ApplyViolations(w, listed)
    PROVE  ViolationsInv'
<1> DEFINE call == evaluating[w].call
           numbered == [i \in DOMAIN listed |-> NewViolation(listed[i], call)]
           row == [call |-> call, listed |-> TRUE, rows |-> numbered]
<1>0. /\ Len(violations) \in Nat /\ DOMAIN violations = 1..Len(violations)
      /\ violations \in Seq(ViolationRow) /\ evaluating \in [Workers -> Evaluation]
  BY RowsOf DEF ViolationsInv
<1>1. /\ call # Idle /\ evaluating' = [evaluating EXCEPT ![w] = row] /\ violations' = violations
      /\ mingled' = (mingled \/ ~IsInjective(listed) \/ \E v \in Workers \ {w} : evaluating[v].listed)
      /\ thinned' = thinned
  BY DEF ApplyViolations
<1>2. PICK n \in 0..MaxListed : listed \in [1..n -> Kinds]
  BY DEF Listings
<1>3. call \in CallIds
  BY <1>0, <1>1 DEF Evaluation
<1>4. \A kind \in Kinds : /\ NewViolation(kind, call) \in ViolationRow
                          /\ NewViolation(kind, call).kind = kind /\ ~NewViolation(kind, call).hr
                          /\ NewViolation(kind, call).occurrence = Occurrence(kind)
                          /\ NewViolation(kind, call).flagged = Flagged(kind, Occurrence(kind))
  <2>. TAKE kind \in Kinds
  <2>1. Occurrence(kind) \in Nat
    <3>1. {i \in DOMAIN violations : violations[i].kind = kind} \subseteq 1..Len(violations)
      BY <1>0
    <3>2. Cardinality({i \in DOMAIN violations : violations[i].kind = kind}) \in Nat
      BY <1>0, <3>1, Counted
    <3>. QED  BY <3>2 DEF Occurrence
  <2>2. Flagged(kind, Occurrence(kind)) \in BOOLEAN
    BY DEF Flagged
  <2>3. NewViolation(kind, call) = [kind |-> kind, call |-> call, occurrence |-> Occurrence(kind),
                                    flagged |-> Flagged(kind, Occurrence(kind)), qa |-> FALSE, hr |-> FALSE]
    BY Zenon DEF NewViolation
  <2>4. PICK o, b : o = Occurrence(kind) /\ b = Flagged(kind, Occurrence(kind))
    OBVIOUS
  <2>5. NewViolation(kind, call) = [kind |-> kind, call |-> call, occurrence |-> o,
                                    flagged |-> b, qa |-> FALSE, hr |-> FALSE]
    BY <2>3, <2>4, Zenon
  <2>6. o \in Nat /\ b \in BOOLEAN
    BY <2>1, <2>2, <2>4, Zenon
  <2>7. /\ NewViolation(kind, call) \in ViolationRow /\ NewViolation(kind, call).kind = kind
        /\ NewViolation(kind, call).hr = FALSE
        /\ NewViolation(kind, call).occurrence = o /\ NewViolation(kind, call).flagged = b
    BY <1>3, <2>5, <2>6 DEF ViolationRow
  <2>. QED  BY <2>4, <2>7, Zenon
<1>5. /\ DOMAIN numbered = 1..n /\ numbered \in Seq(ViolationRow)
      /\ \A i \in 1..n : listed[i] \in Kinds /\ numbered[i] = NewViolation(listed[i], call)
  <2>1. DOMAIN numbered = 1..n /\ \A i \in 1..n : listed[i] \in Kinds /\ numbered[i] = NewViolation(listed[i], call)
    BY <1>2
  <2>2. n \in Nat
    BY ViolationsAssumption
  <2>3. numbered \in [1..n -> ViolationRow]
    BY <1>2, <1>4
  <2>. QED  BY <2>1, <2>2, <2>3, SeqDef
<1>. HIDE DEF numbered
<1>6. row \in Evaluation /\ row.call = call /\ row.listed /\ row.rows = numbered
  BY <1>3, <1>5 DEF Evaluation
<1>. HIDE DEF row
<1>7. /\ evaluating' \in [Workers -> Evaluation] /\ evaluating'[w] = row
      /\ \A v \in Workers : v # w => evaluating'[v] = evaluating[v]
  BY <1>0, <1>1, <1>6
<1>8. mingled' \in BOOLEAN /\ thinned' \in BOOLEAN
  BY <1>1, Zenon DEF ViolationsInv
<1>9. ASSUME ~mingled', ~thinned' PROVE NumberedAlone'
  <2>1. ~mingled /\ ~thinned /\ IsInjective(listed) /\ \A v \in Workers : v # w => ~evaluating[v].listed
    BY <1>1, <1>9
  <2>2. Continues(numbered)
    <3>1. \A i, j \in DOMAIN numbered : numbered[i].kind = numbered[j].kind => i = j
      BY <1>2, <1>4, <1>5, <2>1 DEF IsInjective
    <3>2. \A i \in DOMAIN numbered : /\ numbered[i].occurrence = Occurrence(numbered[i].kind)
                                     /\ numbered[i].flagged = Flagged(numbered[i].kind, numbered[i].occurrence)
      BY <1>4, <1>5
    <3>. QED  BY <3>1, <3>2 DEF Continues
  <2>3. \A v \in Workers : evaluating'[v].listed => v = w
    BY <1>7, <2>1
  <2>4. Continues(evaluating[w].rows)'
    <3>1. PICK r : r = numbered
      OBVIOUS
    <3>2. Continues(r) /\ evaluating'[w].rows = r
      BY <1>6, <1>7, <2>2, <3>1
    <3>3. \A kind : Occurrence(kind)' = Occurrence(kind)
      BY <1>1 DEF Occurrence
    <3>. QED  BY <3>2, <3>3 DEF Continues, Flagged, Tier
  <2>5. \A v \in Workers : evaluating'[v].listed => Continues(evaluating[v].rows)'
    BY <2>3, <2>4
  <2>6. \A i \in DOMAIN violations' : /\ violations'[i].occurrence = Turn(i)'
                                      /\ violations'[i].flagged = Flagged(violations'[i].kind, Turn(i)')
    BY <1>1, <2>1 DEF ViolationsInv, NumberedAlone, Turn
  <2>. QED  BY <2>3, <2>5, <2>6 DEF NumberedAlone, Flagged, Tier
<1>12. NumberedNotAbove'
  <2>. SUFFICES ASSUME ~thinned' PROVE NumberedNotAbove'
    BY DEF NumberedNotAbove
  <2>1. ~thinned /\ \A kind : Occurrence(kind)' = Occurrence(kind)
    BY <1>1 DEF Occurrence
  <2>2. \A i \in DOMAIN violations' : violations'[i].occurrence <= Turn(i)'
    BY <1>1, <2>1 DEF ViolationsInv, NumberedNotAbove, Turn
  <2>3. \A kind : Occurrence(kind) \in Nat
    <3>. TAKE kind
    <3>1. {i \in DOMAIN violations : violations[i].kind = kind} \subseteq 1..Len(violations)
      BY <1>0
    <3>2. Cardinality({i \in DOMAIN violations : violations[i].kind = kind}) \in Nat
      BY <1>0, <3>1, Counted
    <3>. QED  BY <3>2 DEF Occurrence
  <2>4. ASSUME NEW v \in Workers, evaluating'[v].listed
        PROVE  NotAhead(evaluating[v].rows)'
    <3>1. CASE v = w
      <4>0. PICK r : r = numbered
        OBVIOUS
      <4>1. \A i \in DOMAIN r : r[i].occurrence = Occurrence(r[i].kind)
        BY <1>4, <1>5, <4>0
      <4>2. NotAhead(r)
        BY <2>3, <4>1 DEF NotAhead
      <4>3. evaluating'[v].rows = r
        BY <1>6, <1>7, <3>1, <4>0
      <4>. QED  BY <2>1, <4>2, <4>3 DEF NotAhead
    <3>2. CASE v # w
      <4>1. evaluating'[v] = evaluating[v]
        BY <1>7, <3>2
      <4>2. NotAhead(evaluating[v].rows)
        BY <2>1, <2>4, <4>1 DEF ViolationsInv, NumberedNotAbove
      <4>. QED  BY <2>1, <4>1, <4>2 DEF NotAhead
    <3>. QED  BY <3>1, <3>2
  <2>. QED  BY <2>2, <2>4 DEF NumberedNotAbove
<1>10. NumberedAlone'
  BY <1>9 DEF NumberedAlone
<1>11. \A v \in Workers : /\ evaluating'[v].listed => evaluating'[v].call # Idle
                          /\ \A i \in DOMAIN evaluating'[v].rows : ~evaluating'[v].rows[i].hr
  BY <1>1, <1>4, <1>5, <1>6, <1>7 DEF ViolationsInv
<1>. QED  BY <1>0, <1>1, <1>7, <1>8, <1>10, <1>11, <1>12 DEF ViolationsInv

LEMMA StepCommit ==
    ASSUME ViolationsInv, NEW w \in Workers, CommitEvaluation(w)
    PROVE  ViolationsInv'
<1>. PICK n : n = Len(violations)
  OBVIOUS
<1>0. /\ n \in Nat /\ DOMAIN violations = 1..n
      /\ violations \in Seq(ViolationRow) /\ evaluating \in [Workers -> Evaluation]
      /\ \A i \in DOMAIN violations : violations[i] \in ViolationRow
  BY RowsOf DEF ViolationsInv
<1>1. PICK numbered : numbered = evaluating[w].rows
  OBVIOUS
<1>2. /\ evaluating[w].listed /\ violations' = violations \o numbered
      /\ evaluating' = [evaluating EXCEPT ![w] = Nothing]
      /\ mingled' = mingled /\ thinned' = thinned
  BY <1>1 DEF CommitEvaluation
<1>3. /\ numbered \in Seq(ViolationRow) /\ \A i \in DOMAIN numbered : ~numbered[i].hr
      /\ Len(numbered) \in Nat /\ DOMAIN numbered = 1..Len(numbered)
  <2>1. numbered \in Seq(ViolationRow) /\ \A i \in DOMAIN numbered : ~numbered[i].hr
    BY <1>0, <1>1 DEF Evaluation, ViolationsInv
  <2>. QED  BY <2>1, RowsOf
<1>4. /\ Nothing \in Evaluation /\ ~Nothing.listed /\ Nothing.rows = << >>
  BY DEF Nothing, Evaluation
<1>5. /\ evaluating' \in [Workers -> Evaluation] /\ evaluating'[w] = Nothing
      /\ \A v \in Workers : v # w => evaluating'[v] = evaluating[v]
  <2> HIDE DEF Nothing
  <2>. QED  BY <1>0, <1>2, <1>4
<1>6. /\ violations' \in Seq(ViolationRow) /\ Len(violations') = n + Len(numbered)
      /\ \A i \in 1..n : violations'[i] = violations[i]
      /\ \A k \in DOMAIN numbered : violations'[n + k] = numbered[k]
  <2>1. /\ violations \o numbered \in Seq(ViolationRow) /\ Len(violations \o numbered) = n + Len(numbered)
        /\ \A i \in 1..(n + Len(numbered)) :
             (violations \o numbered)[i] = IF i <= n THEN violations[i] ELSE numbered[i - n]
    BY <1>0, <1>3, ConcatProperties
  <2>2. \A k \in DOMAIN numbered : n + k \in 1..(n + Len(numbered)) /\ ~(n + k <= n) /\ (n + k) - n = k
    BY <1>0, <1>3
  <2>3. \A i \in 1..n : i \in 1..(n + Len(numbered)) /\ i <= n
    BY <1>0, <1>3
  <2>. QED  BY <1>2, <2>1, <2>2, <2>3
<1>7. DOMAIN violations' = 1..(n + Len(numbered))
  BY <1>6, LenProperties
<1>8. \A i \in DOMAIN violations' : i \in 1..n \/ \E k \in DOMAIN numbered : i = n + k
  <2>. TAKE i \in DOMAIN violations'
  <2>1. i \in 1..n \/ (i - n \in 1..Len(numbered) /\ i = n + (i - n))
    BY <1>0, <1>3, <1>7
  <2>. QED  BY <2>1, <1>3
<1>9. \A i \in DOMAIN violations' : violations'[i].hr => violations'[i].qa
  <2>1. \A i \in 1..n : violations'[i].hr => violations'[i].qa
    BY <1>0, <1>6 DEF ViolationsInv
  <2>2. \A k \in DOMAIN numbered : ~violations'[n + k].hr
    BY <1>3, <1>6
  <2>. QED  BY <1>8, <2>1, <2>2
<1>10. ASSUME ~mingled', ~thinned' PROVE NumberedAlone'
  <2>1. /\ ~mingled /\ ~thinned /\ Continues(numbered) /\ \A v \in Workers : v # w => ~evaluating[v].listed
        /\ \A i \in 1..n : /\ violations[i].occurrence = Turn(i)
                           /\ violations[i].flagged = Flagged(violations[i].kind, Turn(i))
    BY <1>0, <1>1, <1>2, <1>10 DEF ViolationsInv, NumberedAlone
  <2>2. \A v \in Workers : ~evaluating'[v].listed
    BY <1>4, <1>5, <2>1
  <2>3. \A i \in 1..n : Turn(i)' = Turn(i)
    <3>. TAKE i \in 1..n
    <3>1. i \in Nat /\ \A j \in 1..i : violations'[j].kind = violations[j].kind
      BY <1>0, <1>6
    <3>. QED  BY <3>1, TurnsStay
  <2>4. \A k \in DOMAIN numbered : Turn(n + k)' = Occurrence(numbered[k].kind)
    <3>. TAKE k \in DOMAIN numbered
    <3> DEFINE before == {j \in DOMAIN violations : violations[j].kind = numbered[k].kind}
               now == {j \in 1..(n + k) : violations'[j].kind = violations'[n + k].kind}
    <3>1. k \in Nat /\ k > 0 /\ n + k \in Nat /\ n + k > n /\ k <= Len(numbered)
      BY <1>0, <1>3
    <3>2. ASSUME NEW j \in 1..(n + k) PROVE j \in 1..n \/ (j - n \in DOMAIN numbered /\ j = n + (j - n))
      BY <1>0, <1>3, <3>1
    <3>3. \A i \in DOMAIN numbered : numbered[i].kind = numbered[k].kind => i = k
      BY <2>1 DEF Continues
    <3>4. now \subseteq before \cup {n + k}
      <4>. SUFFICES ASSUME NEW j \in now PROVE j \in before \cup {n + k}
        OBVIOUS
      <4>1. CASE j \in 1..n
        BY <4>1, <1>0, <1>6
      <4>2. CASE j - n \in DOMAIN numbered /\ j = n + (j - n)
        <5>1. violations'[j] = numbered[j - n] /\ violations'[n + k] = numbered[k]
          BY <4>2, <1>6
        <5>2. j - n = k
          BY <4>2, <5>1, <3>3
        <5>. QED  BY <4>2, <5>2
      <4>. QED  BY <3>2, <4>1, <4>2
    <3>5. before \cup {n + k} \subseteq now
      <4>1. \A j \in before : j \in 1..n /\ j \in 1..(n + k)
        BY <1>0, <3>1
      <4>2. n + k \in 1..(n + k)
        BY <3>1, <1>0
      <4>. QED  BY <4>1, <4>2, <1>6
    <3>6. now = before \cup {n + k}
      BY <3>4, <3>5
    <3>7. before \subseteq 1..n
      BY <1>0
    <3>. HIDE DEF before, now
    <3>8. Cardinality(now) = Cardinality(before) + 1
      BY <1>0, <3>1, <3>6, <3>7, CountedNext
    <3>. QED  BY <3>8 DEF Turn, Occurrence, before, now
  <2>5. \A i \in 1..n : /\ violations'[i].occurrence = Turn(i)'
                        /\ violations'[i].flagged = Flagged(violations'[i].kind, Turn(i)')
    BY <1>6, <2>1, <2>3
  <2>6. \A k \in DOMAIN numbered : /\ violations'[n + k].occurrence = Turn(n + k)'
                                   /\ violations'[n + k].flagged = Flagged(violations'[n + k].kind, Turn(n + k)')
    <3>1. \A k \in DOMAIN numbered : /\ numbered[k].occurrence = Occurrence(numbered[k].kind)
                                     /\ numbered[k].flagged = Flagged(numbered[k].kind, numbered[k].occurrence)
      BY <2>1 DEF Continues
    <3>. QED  BY <1>6, <2>4, <3>1
  <2>7. \A i \in DOMAIN violations' : /\ violations'[i].occurrence = Turn(i)'
                                      /\ violations'[i].flagged = Flagged(violations'[i].kind, Turn(i)')
    BY <1>8, <2>5, <2>6
  <2>. QED  BY <2>2, <2>7 DEF NumberedAlone, Flagged, Tier
<1>11. NumberedAlone'
  BY <1>10 DEF NumberedAlone
<1>14. ASSUME ~thinned' PROVE NumberedNotAbove'
  <2>1. /\ ~thinned
        /\ \A i \in 1..n : violations[i].occurrence <= Turn(i)
        /\ \A k \in DOMAIN numbered : numbered[k].occurrence <= Occurrence(numbered[k].kind)
    BY <1>0, <1>1, <1>2, <1>14 DEF ViolationsInv, NumberedNotAbove, NotAhead
  <2>2. \A i \in 1..n : Turn(i)' = Turn(i)
    <3>. TAKE i \in 1..n
    <3>1. i \in Nat /\ \A j \in 1..i : violations'[j].kind = violations[j].kind
      BY <1>0, <1>6
    <3>. QED  BY <3>1, TurnsStay
  <2>3. ASSUME NEW k \in DOMAIN numbered
        PROVE  violations'[n + k].occurrence <= Turn(n + k)'
    <3> DEFINE before == {j \in DOMAIN violations : violations[j].kind = numbered[k].kind}
               now == {j \in 1..(n + k) : violations'[j].kind = violations'[n + k].kind}
    <3>1. k \in Nat /\ k > 0 /\ n + k \in Nat /\ n + k > n
      BY <1>0, <1>3
    <3>2. before \cup {n + k} \subseteq now
      <4>1. \A j \in before : j \in 1..n /\ j \in 1..(n + k)
        BY <1>0, <3>1
      <4>2. n + k \in 1..(n + k)
        BY <3>1, <1>0
      <4>. QED  BY <4>1, <4>2, <1>6
    <3>3. before \subseteq 1..n /\ now \subseteq 1..(n + k)
      BY <1>0
    <3>4. Occurrence(numbered[k].kind) = Cardinality(before) + 1 /\ Turn(n + k)' = Cardinality(now)
      BY DEF Occurrence, Turn
    <3>5. violations'[n + k] = numbered[k]
      BY <1>6
    <3>. HIDE DEF before, now
    <3>6. Cardinality(before \cup {n + k}) = Cardinality(before) + 1
      BY <1>0, <3>1, <3>3, CountedNext
    <3>7. Cardinality(before \cup {n + k}) <= Cardinality(now)
      BY <3>1, <3>2, <3>3, CountedWithin
    <3>8. Cardinality(now) \in Nat /\ Cardinality(before) \in Nat /\ numbered[k].occurrence \in Nat
      BY <1>0, <1>3, <3>1, <3>3, Counted, RowsOf DEF ViolationRow
    <3>. QED  BY <2>1, <3>4, <3>5, <3>6, <3>7, <3>8
  <2>4. \A i \in DOMAIN violations' : violations'[i].occurrence <= Turn(i)'
    BY <1>6, <1>8, <2>1, <2>2, <2>3
  <2>5. ASSUME NEW row \in ViolationRow, row.occurrence <= Occurrence(row.kind)
        PROVE  row.occurrence <= Occurrence(row.kind)'
    <3> DEFINE before == {j \in DOMAIN violations : violations[j].kind = row.kind}
               now == {j \in DOMAIN violations' : violations'[j].kind = row.kind}
    <3>1. n + Len(numbered) \in Nat /\ before \subseteq now /\ now \subseteq 1..(n + Len(numbered))
      <4>1. \A j \in 1..n : j \in 1..(n + Len(numbered))
        BY <1>0, <1>3
      <4>. QED  BY <1>0, <1>3, <1>6, <1>7, <4>1
    <3>2. Occurrence(row.kind) = Cardinality(before) + 1 /\ Occurrence(row.kind)' = Cardinality(now) + 1
      BY DEF Occurrence
    <3>. HIDE DEF before, now
    <3>3. Cardinality(before) <= Cardinality(now)
      BY <3>1, CountedWithin
    <3>4. Cardinality(now) \in Nat /\ Cardinality(before) \in Nat /\ row.occurrence \in Nat
      <4>1. before \subseteq 1..(n + Len(numbered))
        BY <3>1
      <4>. QED  BY <3>1, <4>1, Counted DEF ViolationRow
    <3>. QED  BY <2>5, <3>2, <3>3, <3>4
  <2>6. ASSUME NEW v \in Workers, evaluating'[v].listed
        PROVE  NotAhead(evaluating[v].rows)'
    <3>1. evaluating'[v] = evaluating[v] /\ evaluating[v].listed
      BY <1>4, <1>5, <2>6
    <3>2. PICK r : r = evaluating[v].rows
      OBVIOUS
    <3>3. /\ \A i \in DOMAIN r : r[i] \in ViolationRow
          /\ \A i \in DOMAIN r : r[i].occurrence <= Occurrence(r[i].kind)
      <4>1. r \in Seq(ViolationRow)
        BY <1>0, <3>2 DEF Evaluation
      <4>2. \A i \in DOMAIN r : r[i].occurrence <= Occurrence(r[i].kind)
        BY <1>2, <1>14, <3>1, <3>2 DEF ViolationsInv, NumberedNotAbove, NotAhead
      <4>. QED  BY <4>1, <4>2, RowsOf
    <3>4. \A i \in DOMAIN r : r[i].occurrence <= Occurrence(r[i].kind)'
      BY <2>5, <3>3
    <3>5. evaluating'[v].rows = r
      BY <3>1, <3>2
    <3>. QED  BY <3>4, <3>5 DEF NotAhead
  <2>. QED  BY <2>4, <2>6 DEF NumberedNotAbove
<1>15. NumberedNotAbove'
  BY <1>14 DEF NumberedNotAbove
<1>12. \A v \in Workers : /\ evaluating'[v].listed => evaluating'[v].call # Idle
                          /\ \A i \in DOMAIN evaluating'[v].rows : ~evaluating'[v].rows[i].hr
  BY <1>4, <1>5 DEF ViolationsInv
<1>13. mingled' \in BOOLEAN /\ thinned' \in BOOLEAN
  BY <1>2, Zenon DEF ViolationsInv
<1>. QED  BY <1>5, <1>6, <1>9, <1>11, <1>12, <1>13, <1>15 DEF ViolationsInv

LEMMA StepDies ==
    ASSUME ViolationsInv, NEW w \in Workers, EvaluationDies(w)
    PROVE  ViolationsInv'
<1>1. /\ evaluating' = [evaluating EXCEPT ![w] = Nothing] /\ UNCHANGED << violations, mingled, thinned >>
      /\ evaluating \in [Workers -> Evaluation]
  BY DEF EvaluationDies, ViolationsInv
<1>2. /\ Nothing \in Evaluation /\ ~Nothing.listed /\ Nothing.rows = << >>
  BY DEF Nothing, Evaluation
<1>3. /\ evaluating' \in [Workers -> Evaluation] /\ evaluating'[w] = Nothing
      /\ \A v \in Workers : v # w => evaluating'[v] = evaluating[v]
  <2> HIDE DEF Nothing
  <2>. QED  BY <1>1, <1>2
<1>4. ASSUME ~mingled', ~thinned' PROVE NumberedAlone'
  <2>1. /\ ~mingled /\ ~thinned /\ \A u, v \in Workers : evaluating[u].listed /\ evaluating[v].listed => u = v
        /\ \A i \in DOMAIN violations : /\ violations[i].occurrence = Turn(i)
                                        /\ violations[i].flagged = Flagged(violations[i].kind, Turn(i))
    BY <1>1, <1>4 DEF ViolationsInv, NumberedAlone
  <2>2. \A i \in DOMAIN violations' : /\ violations'[i].occurrence = Turn(i)'
                                      /\ violations'[i].flagged = Flagged(violations'[i].kind, Turn(i)')
    BY <1>1, <2>1 DEF Turn
  <2>3. \A v \in Workers : evaluating'[v].listed => evaluating'[v] = evaluating[v] /\ evaluating[v].listed
    BY <1>2, <1>3
  <2>4. ASSUME NEW v \in Workers, evaluating'[v].listed PROVE Continues(evaluating[v].rows)'
    <3>1. Continues(evaluating[v].rows) /\ evaluating'[v].rows = evaluating[v].rows
      BY <2>1, <2>3, <2>4 DEF ViolationsInv, NumberedAlone
    <3>. QED  BY <1>1, <3>1, ContinuesStays
  <2>5. \A u, v \in Workers : evaluating'[u].listed /\ evaluating'[v].listed => u = v
    BY <2>1, <2>3
  <2>. QED  BY <2>2, <2>4, <2>5 DEF NumberedAlone, Flagged, Tier
<1>5. NumberedAlone'
  BY <1>4 DEF NumberedAlone
<1>6. \A v \in Workers : /\ evaluating'[v].listed => evaluating'[v].call # Idle
                         /\ \A i \in DOMAIN evaluating'[v].rows : ~evaluating'[v].rows[i].hr
  BY <1>2, <1>3 DEF ViolationsInv
<1>7. ASSUME ~thinned' PROVE NumberedNotAbove'
  <2>1. ~thinned /\ \A kind : Occurrence(kind)' = Occurrence(kind)
    BY <1>1, <1>7 DEF Occurrence
  <2>2. \A i \in DOMAIN violations' : violations'[i].occurrence <= Turn(i)'
    BY <1>1, <2>1 DEF ViolationsInv, NumberedNotAbove, Turn
  <2>3. ASSUME NEW v \in Workers, evaluating'[v].listed
        PROVE  NotAhead(evaluating[v].rows)'
    <3>1. evaluating'[v] = evaluating[v] /\ evaluating[v].listed
      BY <1>2, <1>3, <2>3
    <3>2. NotAhead(evaluating[v].rows)
      BY <2>1, <3>1 DEF ViolationsInv, NumberedNotAbove
    <3>. QED  BY <2>1, <3>1, <3>2 DEF NotAhead
  <2>. QED  BY <2>2, <2>3 DEF NumberedNotAbove
<1>8. NumberedNotAbove'
  BY <1>7 DEF NumberedNotAbove
<1>. QED  BY <1>1, <1>3, <1>5, <1>6, <1>8 DEF ViolationsInv

LEMMA StepApproves ==
    ASSUME ViolationsInv, NEW i \in DOMAIN violations, QaApprove(i) \/ HrApprove(i)
    PROVE  ViolationsInv'
<1>0. /\ violations \in Seq(ViolationRow) /\ violations[i] \in ViolationRow
      /\ violations[i].hr => violations[i].qa
  BY RowsOf DEF ViolationsInv
<1>1. PICK row \in ViolationRow :
        /\ violations' = [violations EXCEPT ![i] = row] /\ UNCHANGED << evaluating, mingled, thinned >>
        /\ row.kind = violations[i].kind /\ row.occurrence = violations[i].occurrence
        /\ row.flagged = violations[i].flagged /\ (row.hr => row.qa)
  <2>1. CASE QaApprove(i)
    <3> DEFINE row == [violations[i] EXCEPT !.qa = TRUE]
    <3>1. /\ row \in ViolationRow /\ row.kind = violations[i].kind /\ row.flagged = violations[i].flagged
          /\ row.occurrence = violations[i].occurrence /\ row.qa
      BY <1>0 DEF ViolationRow
    <3>2. violations' = [violations EXCEPT ![i] = row] /\ UNCHANGED << evaluating, mingled, thinned >>
      BY <2>1 DEF QaApprove
    <3>. QED  BY <3>1, <3>2
  <2>2. CASE HrApprove(i)
    <3> DEFINE row == [violations[i] EXCEPT !.hr = TRUE]
    <3>1. /\ row \in ViolationRow /\ row.kind = violations[i].kind /\ row.flagged = violations[i].flagged
          /\ row.occurrence = violations[i].occurrence /\ row.qa = violations[i].qa
      BY <1>0 DEF ViolationRow
    <3>2. /\ violations' = [violations EXCEPT ![i] = row] /\ UNCHANGED << evaluating, mingled, thinned >>
          /\ violations[i].qa
      BY <2>2 DEF HrApprove
    <3>. QED  BY <3>1, <3>2
  <2>. QED  BY <2>1, <2>2
<1>2. /\ violations' \in Seq(ViolationRow) /\ DOMAIN violations' = DOMAIN violations
      /\ \A j \in DOMAIN violations : violations'[j] = IF j = i THEN row ELSE violations[j]
  BY <1>0, <1>1, ExceptSeq
<1>3. \A j \in DOMAIN violations : /\ violations'[j].kind = violations[j].kind
                                   /\ violations'[j].occurrence = violations[j].occurrence
                                   /\ violations'[j].flagged = violations[j].flagged
                                   /\ violations'[j].hr => violations'[j].qa
  BY <1>1, <1>2 DEF ViolationsInv
<1>. QED  BY <1>1, <1>2, <1>3, ApprovalKeeps

\* Whatever workers number at once and however often a call lists a kind, no violation gets a
\* higher number than its place among those of its kind, as long as no failed evaluation is
\* redone after later ones; and those numbered one evaluation after another, no kind twice in
\* a call, get exactly their place.  HR approves after QA.  For any workers, calls and kinds.
THEOREM OccurrencesCount == ViolationsSpec => [](NoneCountedAbove /\ OccurrencesCountUp)
<1>1. ViolationsInit => ViolationsInv
  <2>. SUFFICES ASSUME ViolationsInit PROVE ViolationsInv
    OBVIOUS
  <2>1. /\ violations = << >> /\ evaluating = [w \in Workers |-> Nothing] /\ mingled = FALSE /\ thinned = FALSE
        /\ violations \in Seq(ViolationRow) /\ DOMAIN violations = {}
    BY DEF ViolationsInit
  <2>2. Nothing \in Evaluation /\ ~Nothing.listed /\ DOMAIN Nothing.rows = {}
    BY DEF Nothing, Evaluation
  <2>. HIDE DEF Nothing
  <2>3. NumberedAlone
    BY <2>1, <2>2 DEF NumberedAlone
  <2>4. NumberedNotAbove
    BY <2>1, <2>2 DEF NumberedNotAbove
  <2>. QED  BY <2>1, <2>2, <2>3, <2>4 DEF ViolationsInv
<1>2. ViolationsInv /\ [ViolationsNext]_violationVars => ViolationsInv'
  <2>. SUFFICES ASSUME ViolationsInv, [ViolationsNext]_violationVars PROVE ViolationsInv'
    OBVIOUS
  <2>1. CASE UNCHANGED violationVars
    BY <2>1, ApprovalKeeps DEF violationVars, ViolationsInv
  <2>. QED  BY <2>1, StepTakeCall, StepApply, StepCommit, StepDies, StepApproves DEF ViolationsNext
<1>3. ViolationsInv => NoneCountedAbove /\ OccurrencesCountUp
  BY DEF ViolationsInv, NumberedAlone, NumberedNotAbove, NoneCountedAbove, OccurrencesCountUp, Flagged
<1>. QED  BY <1>1, <1>2, <1>3, PTL DEF ViolationsSpec
----------------------------------------------------------------------------
(* The written test. *)

TestSpec == TestInit /\ [][TestNext]_testVars

\* The highest of some numbers, of which there are finitely many, is one of them and bounds them.
LEMMA MaxOfSeq ==
    ASSUME NEW s \in Seq(Nat), s # << >>
    PROVE  Max(ToSet(s)) \in Nat /\ \A k \in DOMAIN s : s[k] <= Max(ToSet(s))
<1> DEFINE H == {i \in 0..Len(s) : i = 0 \/ \E m \in 1..i : \A k \in 1..i : s[k] <= s[m]}
<1>0. Len(s) \in Nat /\ Len(s) # 0 /\ DOMAIN s = 1..Len(s) /\ \A k \in 1..Len(s) : s[k] \in Nat
  BY EmptySeq, LenProperties, ElementOfSeq
<1>1. 0 \in H
  BY <1>0
<1>2. ASSUME NEW i \in 0..(Len(s) - 1), i \in H PROVE i + 1 \in H
  <2>1. CASE i = 0
    BY <2>1, <1>0
  <2>2. CASE i # 0
    <3>1. PICK m \in 1..i : \A k \in 1..i : s[k] <= s[m]
      BY <1>2, <2>2
    <3>2. CASE s[i + 1] <= s[m]
      <4>1. m \in 1..(i + 1) /\ \A k \in 1..(i + 1) : s[k] <= s[m]
        BY <3>1, <3>2, <1>0
      <4>. QED  BY <4>1, <1>0
    <3>3. CASE ~(s[i + 1] <= s[m])
      <4>1. i + 1 \in 1..(i + 1) /\ \A k \in 1..(i + 1) : s[k] <= s[i + 1]
        BY <3>1, <3>3, <1>0
      <4>. QED  BY <4>1, <1>0
    <3>. QED  BY <3>2, <3>3
  <2>. QED  BY <2>1, <2>2
<1> HIDE DEF H
<1>3. Len(s) \in H
  <2>1. \A i \in 0..Len(s) : i \in H
    BY <1>0, <1>1, <1>2, UpTo, Zenon
  <2>. QED  BY <2>1, <1>0
<1>4. PICK m \in 1..Len(s) : \A k \in 1..Len(s) : s[k] <= s[m]
  BY <1>3, <1>0 DEF H
<1>5. ToSet(s) = {s[k] : k \in DOMAIN s}
  BY DEF ToSet
<1>6. Max(ToSet(s)) = s[m]
  BY <1>0, <1>4, <1>5, MaxIs
<1>. QED  BY <1>0, <1>4, <1>6

\* A bank as the questions of a test are stored before they are normalized.
Raw(raw) == /\ Len(raw) \in Nat /\ DOMAIN raw = 1..Len(raw)
            /\ \A i \in DOMAIN raw : raw[i].id \in Nat

OwnId(raw, i) == IF raw[i].id = 0 THEN i ELSE raw[i].id
NextId(raw, ids, i) == IF Contains(ids, OwnId(raw, i)) THEN Max(ToSet(ids)) + 1 ELSE OwnId(raw, i)

\* f holds the ids of the first i questions, for each i up to n.
IdsUpTo(f, raw, n) ==
    f = [i \in 0..n |-> IF i = 0 THEN << >> ELSE Append(f[i - 1], NextId(raw, f[i - 1], i))]

\* The ids of a bank are given by a function that its recursion equation defines.
LEMMA IdsOfDef ==
    ASSUME NEW raw, Raw(raw)
    PROVE  \E f : IdsUpTo(f, raw, Len(raw)) /\ IdsOf(raw) = f[Len(raw)]
<1> DEFINE S == {i \in Nat : \E f : IdsUpTo(f, raw, i)}
           F == CHOOSE f : IdsUpTo(f, raw, Len(raw))
<1>0. Len(raw) \in Nat
  BY DEF Raw
<1>1. 0 \in S
  <2>. DEFINE f == [i \in 0..0 |-> << >>]
  <2>1. IdsUpTo(f, raw, 0)
    BY DEF IdsUpTo
  <2>. QED  BY <2>1
<1>2. ASSUME NEW i \in 0..(Len(raw) - 1), i \in S PROVE i + 1 \in S
  <2>1. PICK f : IdsUpTo(f, raw, i)
    BY <1>2
  <2>. DEFINE g == [j \in 0..(i + 1) |-> IF j = i + 1 THEN Append(f[i], NextId(raw, f[i], i + 1)) ELSE f[j]]
  <2>2. i \in Nat /\ i + 1 \in Nat
    BY <1>0
  <2>3. DOMAIN f = 0..i /\ \A j \in 0..i : f[j] = IF j = 0 THEN << >> ELSE Append(f[j - 1], NextId(raw, f[j - 1], j))
    <3>. DEFINE rhs == [j \in 0..i |-> IF j = 0 THEN << >> ELSE Append(f[j - 1], NextId(raw, f[j - 1], j))]
    <3>1. f = rhs
      BY <2>1 DEF IdsUpTo
    <3>2. DOMAIN rhs = 0..i /\ \A j \in 0..i : rhs[j] = IF j = 0 THEN << >> ELSE Append(f[j - 1], NextId(raw, f[j - 1], j))
      OBVIOUS
    <3>. HIDE DEF rhs
    <3>. QED  BY <3>1, <3>2
  <2>4. \A j \in 0..i : g[j] = f[j]
    BY <2>2
  <2>5. g[i + 1] = Append(g[i], NextId(raw, g[i], i + 1))
    BY <2>2, <2>4
  <2>6. DOMAIN g = 0..(i + 1)
    OBVIOUS
  <2>7. \A j \in 0..(i + 1) : g[j] = IF j = 0 THEN << >> ELSE Append(g[j - 1], NextId(raw, g[j - 1], j))
    <3>. SUFFICES ASSUME NEW j \in 0..(i + 1)
                  PROVE  g[j] = IF j = 0 THEN << >> ELSE Append(g[j - 1], NextId(raw, g[j - 1], j))
      OBVIOUS
    <3>. HIDE DEF g
    <3>1. CASE j = i + 1
      <4>1. j # 0 /\ j - 1 = i
        BY <3>1, <2>2
      <4>. QED  BY <4>1, <3>1, <2>5
    <3>2. CASE j # i + 1
      <4>1. j \in 0..i /\ (j # 0 => j - 1 \in 0..i)
        BY <3>2, <2>2
      <4>2. g[j] = f[j] /\ (j # 0 => g[j - 1] = f[j - 1])
        BY <4>1, <2>4
      <4>. QED  BY <4>1, <4>2, <2>3
    <3>. QED  BY <3>1, <3>2
  <2>8. g = [j \in 0..(i + 1) |-> g[j]]
    BY <2>6
  <2>. HIDE DEF g
  <2>9. IdsUpTo(g, raw, i + 1)
    BY <2>6, <2>7, <2>8 DEF IdsUpTo
  <2>. QED  BY <2>9, <2>2
<1>. HIDE DEF S
<1>3. Len(raw) \in S
  <2>1. \A i \in 0..Len(raw) : i \in S
    BY <1>0, <1>1, <1>2, UpTo, Zenon
  <2>. QED  BY <2>1, <1>0
<1>4. IdsUpTo(F, raw, Len(raw))
  BY <1>3 DEF S
<1>5. IdsOf(raw) = F[Len(raw)]
  BY DEF IdsOf, IdsUpTo, NextId, OwnId
<1>. QED  BY <1>4, <1>5

LEMMA IdsOneByOne ==
    ASSUME NEW raw, Raw(raw)
    PROVE  \E f : /\ f[0] = << >> /\ IdsOf(raw) = f[Len(raw)]
                 /\ \A i \in 0..(Len(raw) - 1) : f[i + 1] = Append(f[i], NextId(raw, f[i], i + 1))
<1>0. Len(raw) \in Nat
  BY DEF Raw
<1>1. PICK f : IdsUpTo(f, raw, Len(raw)) /\ IdsOf(raw) = f[Len(raw)]
  BY IdsOfDef
<1>2. f[0] = << >> /\ \A i \in 0..(Len(raw) - 1) : f[i + 1] = Append(f[i], NextId(raw, f[i], i + 1))
  <2>1. f = [i \in 0..Len(raw) |-> IF i = 0 THEN << >> ELSE Append(f[i - 1], NextId(raw, f[i - 1], i))]
    BY <1>1 DEF IdsUpTo
  <2>2. \A i \in 0..Len(raw) : f[i] = IF i = 0 THEN << >> ELSE Append(f[i - 1], NextId(raw, f[i - 1], i))
    BY <2>1, Zenon
  <2>3. \A i \in 0..(Len(raw) - 1) : i + 1 \in 0..Len(raw) /\ i + 1 # 0 /\ (i + 1) - 1 = i
    BY <1>0
  <2>4. 0 \in 0..Len(raw)
    BY <1>0
  <2>. QED  BY <2>2, <2>3, <2>4, Zenon
<1>. QED  BY <1>1, <1>2

\* Each bank it is given, ids of staff or none, twice the same or not, comes out with ids of
\* its own: natural numbers above 0, as many as questions, no two alike; and ids that are so
\* already stay.
LEMMA IdsAreDistinct ==
    ASSUME NEW raw, Raw(raw)
    PROVE  /\ IdsOf(raw) \in Seq(Nat \ {0}) /\ Len(IdsOf(raw)) = Len(raw)
           /\ \A j, k \in DOMAIN raw : IdsOf(raw)[j] = IdsOf(raw)[k] => j = k
<1> DEFINE Good(s, i) == /\ s \in Seq(Nat \ {0}) /\ Len(s) = i
                         /\ \A j, k \in 1..i : s[j] = s[k] => j = k
<1>0. Len(raw) \in Nat /\ DOMAIN raw = 1..Len(raw) /\ \A i \in DOMAIN raw : raw[i].id \in Nat
  BY DEF Raw
<1>1. PICK f : /\ f[0] = << >> /\ IdsOf(raw) = f[Len(raw)]
               /\ \A i \in 0..(Len(raw) - 1) : f[i + 1] = Append(f[i], NextId(raw, f[i], i + 1))
  BY IdsOneByOne
<1> DEFINE S == {i \in 0..Len(raw) : Good(f[i], i)}
<1>3. 0 \in S
  <2>1. << >> \in Seq(Nat \ {0}) /\ << >> \in Seq(Nat) /\ Len(<< >>) = 0
    BY EmptySeq
  <2>2. Good(f[0], 0)
    BY <1>1, <2>1
  <2>3. 0 \in 0..Len(raw)
    BY <1>0
  <2>. QED  BY <2>2, <2>3
<1>4. ASSUME NEW i \in 0..(Len(raw) - 1), i \in S PROVE i + 1 \in S
  <2>0. i \in Nat /\ i + 1 \in 1..Len(raw) /\ i + 1 \in Nat \ {0}
    BY <1>0
  <2>1. PICK s : s = f[i]
    OBVIOUS
  <2>2. PICK x : x = NextId(raw, s, i + 1)
    OBVIOUS
  <2>3. s \in Seq(Nat \ {0}) /\ Len(s) = i /\ \A j, k \in 1..i : s[j] = s[k] => j = k
    BY <1>4, <2>1
  <2>4. \A k \in 1..i : s[k] \in Nat \ {0}
    BY <2>3, ElementOfSeq, Zenon
  <2>5. OwnId(raw, i + 1) \in Nat \ {0}
    BY <1>0, <2>0 DEF OwnId
  <2>6. x \in Nat \ {0} /\ \A k \in 1..i : s[k] # x
    <3>1. CASE Contains(s, OwnId(raw, i + 1))
      <4> DEFINE m == Max(ToSet(s))
      <4>1. x = m + 1
        BY <2>2, <3>1 DEF NextId
      <4>2. s # << >> /\ s \in Seq(Nat)
        BY <2>3, <3>1, EmptySeq DEF Contains
      <4>3. m \in Nat /\ \A k \in DOMAIN s : s[k] <= m
        BY <4>2, MaxOfSeq
      <4> HIDE DEF m
      <4>4. DOMAIN s = 1..i
        BY <2>3
      <4>. QED  BY <4>1, <4>3, <4>4, <2>4
    <3>2. CASE ~Contains(s, OwnId(raw, i + 1))
      <4>1. x = OwnId(raw, i + 1)
        BY <2>2, <3>2 DEF NextId
      <4>2. \A k \in DOMAIN s : s[k] # OwnId(raw, i + 1)
        BY <3>2 DEF Contains
      <4>. QED  BY <4>1, <4>2, <2>3, <2>5
    <3>. QED  BY <3>1, <3>2
  <2>7. f[i + 1] = Append(s, x)
    BY <1>1, <2>1, <2>2
  <2>8. /\ Append(s, x) \in Seq(Nat \ {0}) /\ Len(Append(s, x)) = i + 1
        /\ \A k \in 1..i : Append(s, x)[k] = s[k]
        /\ Append(s, x)[i + 1] = x
    BY <2>3, <2>6, AppendProperties
  <2>9. \A j, k \in 1..(i + 1) : Append(s, x)[j] = Append(s, x)[k] => j = k
    BY <2>0, <2>3, <2>6, <2>8
  <2>10. Good(f[i + 1], i + 1)
    BY <2>7, <2>8, <2>9
  <2>. QED  BY <2>0, <2>10
<1>5. Len(raw) \in S
  <2> HIDE DEF S
  <2>1. \A i \in 0..Len(raw) : i \in S
    BY <1>0, <1>3, <1>4, UpTo, Zenon
  <2>. QED  BY <2>1, <1>0
<1>. QED  BY <1>0, <1>1, <1>5

LEMMA DistinctIdsStay ==
    ASSUME NEW raw, Raw(raw), \A j, k \in DOMAIN raw : raw[j].id = raw[k].id => j = k,
           \A i \in DOMAIN raw : raw[i].id # 0
    PROVE  \A i \in DOMAIN raw : IdsOf(raw)[i] = raw[i].id
<1> DEFINE Kept(s, i) == s \in Seq(Nat) /\ Len(s) = i /\ \A j \in 1..i : s[j] = raw[j].id
<1>0. Len(raw) \in Nat /\ DOMAIN raw = 1..Len(raw) /\ \A i \in DOMAIN raw : raw[i].id \in Nat
  BY DEF Raw
<1>1. PICK f : /\ f[0] = << >> /\ IdsOf(raw) = f[Len(raw)]
               /\ \A i \in 0..(Len(raw) - 1) : f[i + 1] = Append(f[i], NextId(raw, f[i], i + 1))
  BY IdsOneByOne
<1> DEFINE S == {i \in 0..Len(raw) : Kept(f[i], i)}
<1>3. 0 \in S
  <2>1. << >> \in Seq(Nat \ {0}) /\ << >> \in Seq(Nat) /\ Len(<< >>) = 0
    BY EmptySeq
  <2>2. Kept(f[0], 0)
    BY <1>1, <2>1
  <2>3. 0 \in 0..Len(raw)
    BY <1>0
  <2>. QED  BY <2>2, <2>3
<1>4. ASSUME NEW i \in 0..(Len(raw) - 1), i \in S PROVE i + 1 \in S
  <2>0. i \in Nat /\ i + 1 \in 1..Len(raw)
    BY <1>0
  <2>1. PICK s : s = f[i]
    OBVIOUS
  <2>2. s \in Seq(Nat) /\ Len(s) = i /\ DOMAIN s = 1..i /\ \A j \in 1..i : s[j] = raw[j].id
    BY <1>4, <2>1
  <2>3. \A j \in 1..i : s[j] # raw[i + 1].id
    <3>1. \A j \in 1..i : j \in DOMAIN raw /\ i + 1 \in DOMAIN raw /\ j # i + 1
      BY <1>0, <2>0
    <3>. QED  BY <3>1, <2>2
  <2>4. OwnId(raw, i + 1) = raw[i + 1].id
    BY <1>0, <2>0 DEF OwnId
  <2>5. NextId(raw, s, i + 1) = raw[i + 1].id
    BY <2>2, <2>3, <2>4 DEF NextId, Contains
  <2>6. f[i + 1] = Append(s, raw[i + 1].id) /\ raw[i + 1].id \in Nat
    BY <1>0, <1>1, <2>0, <2>1, <2>5
  <2>7. Kept(f[i + 1], i + 1)
    BY <2>0, <2>2, <2>6, AppendProperties
  <2>. QED  BY <2>0, <2>7
<1>5. Len(raw) \in S
  <2> HIDE DEF S
  <2>1. \A i \in 0..Len(raw) : i \in S
    BY <1>0, <1>3, <1>4, UpTo, Zenon
  <2>. QED  BY <2>1, <1>0
<1>. QED  BY <1>0, <1>1, <1>5

Question == [id : Nat, section : Sections, trait : BOOLEAN, text : Nat \X Nat]

\* A bank as normalize_mcq_bank leaves it: questions with ids of their own.
Normalized(questions) ==
    /\ questions \in Seq(Question) /\ questions # << >>
    /\ \A i \in DOMAIN questions : questions[i].id # 0
    /\ \A i, j \in DOMAIN questions : questions[i].id = questions[j].id => i = j

\* The bank is normalized, what the candidate has before him and what was graded are banks
\* that were; a submission has a verdict for each of its questions, in their order, and the
\* option that was meant where the questions are those he saw.
TestInv ==
    /\ edits \in Nat
    /\ Normalized(bank) /\ IsInjective([i \in DOMAIN bank |-> bank[i].text])
    /\ shown # << >> => Normalized(shown) /\ DOMAIN chosen = DOMAIN shown
    /\ submission # NoTest =>
         /\ Normalized(submission.snapshot)
         /\ IsInjective([i \in DOMAIN submission.snapshot |-> submission.snapshot[i].text])
         /\ DOMAIN submission.details = DOMAIN submission.snapshot
         /\ \A i \in DOMAIN submission.snapshot :
              /\ submission.details[i].id = submission.snapshot[i].id
              /\ submission.details[i].correct = Counts(submission.snapshot[i], submission.details[i].answer)
         /\ submission.score = Cardinality({i \in DOMAIN submission.details : submission.details[i].correct})
         /\ submission.snapshot = shown =>
              \A i \in DOMAIN shown : submission.details[i].answer = chosen[i]

LEMMA QuestionsOf ==
    ASSUME NEW questions, Normalized(questions)
    PROVE  /\ Raw(questions) /\ Len(questions) \in Nat /\ DOMAIN questions = 1..Len(questions)
           /\ \A i \in DOMAIN questions : questions[i] \in Question
<1>1. Len(questions) \in Nat /\ DOMAIN questions = 1..Len(questions)
  BY LenProperties DEF Normalized
<1>2. \A i \in DOMAIN questions : questions[i] \in Question
  BY <1>1, ElementOfSeq DEF Normalized
<1>. QED  BY <1>1, <1>2 DEF Raw, Question

\* Staff's questions come out normalized, with their texts.
LEMMA NormalizeGives ==
    ASSUME NEW raw \in Seq(Question), raw # << >>
    PROVE  /\ Normalized(Normalize(raw)) /\ DOMAIN Normalize(raw) = DOMAIN raw
           /\ \A i \in DOMAIN raw : Normalize(raw)[i].text = raw[i].text
<1> DEFINE b == [i \in DOMAIN raw |-> [raw[i] EXCEPT !.id = IdsOf(raw)[i]]]
<1>1. /\ Len(raw) \in Nat /\ DOMAIN raw = 1..Len(raw) /\ Len(raw) # 0
      /\ \A i \in DOMAIN raw : raw[i] \in Question
  BY LenProperties, ElementOfSeq, EmptySeq
<1>2. Raw(raw)
  BY <1>1 DEF Raw, Question
<1>3. \A i \in DOMAIN raw : IdsOf(raw)[i] \in Nat \ {0}
  BY <1>1, <1>2, IdsAreDistinct, ElementOfSeq
<1>4. ASSUME NEW i \in DOMAIN raw
      PROVE  b[i] \in Question /\ b[i].id = IdsOf(raw)[i] /\ b[i].text = raw[i].text
  BY <1>1, <1>3 DEF Question
<1>5. b \in Seq(Question) /\ DOMAIN b = DOMAIN raw /\ b # << >>
  <2>1. DOMAIN b = 1..Len(raw) /\ \A i \in 1..Len(raw) : b[i] \in Question
    BY <1>1, <1>4
  <2>. HIDE DEF b
  <2>2. b = [i \in 1..Len(raw) |-> b[i]]
    BY DEF b
  <2>3. b \in [1..Len(raw) -> Question]
    BY <2>1, <2>2
  <2>. QED  BY <1>1, <2>1, <2>3, SeqDef
<1>6. Normalize(raw) = b
  BY DEF Normalize
<1>. HIDE DEF b
<1>7. \A i, j \in DOMAIN raw : b[i].id = b[j].id => i = j
  BY <1>2, <1>4, IdsAreDistinct
<1>. QED  BY <1>3, <1>4, <1>5, <1>6, <1>7 DEF Normalized

\* What is normalized already stays as it is: the page, the submission and the review read the
\* same bank.
LEMMA NormalizeTwice ==
    ASSUME NEW questions, Normalized(questions)
    PROVE  Normalize(questions) = questions
<1> DEFINE b == [i \in DOMAIN questions |-> [questions[i] EXCEPT !.id = IdsOf(questions)[i]]]
<1>1. Raw(questions) /\ \A i \in DOMAIN questions : questions[i] \in Question
  BY QuestionsOf
<1>2. \A i \in DOMAIN questions : IdsOf(questions)[i] = questions[i].id
  BY <1>1, DistinctIdsStay DEF Normalized
<1>3. \A i \in DOMAIN questions : b[i] = questions[i]
  BY <1>1, <1>2 DEF Question
<1>4. Normalize(questions) = b
  BY DEF Normalize, Normalized
<1>5. questions = [i \in DOMAIN questions |-> questions[i]]
  BY <1>1, QuestionsOf, LenProperties DEF Normalized
<1>6. b = [i \in DOMAIN questions |-> questions[i]]
  BY <1>3
<1>. QED  BY <1>4, <1>5, <1>6

LEMMA DefaultIsNormalized ==
    /\ Normalized(DefaultBank) /\ IsInjective([i \in DOMAIN DefaultBank |-> DefaultBank[i].text])
<1>1. /\ DefaultBank \in Seq(Question) /\ DOMAIN DefaultBank = 1..2 /\ DefaultBank # << >>
      /\ DefaultBank[1].id = 1 /\ DefaultBank[2].id = 2
      /\ DefaultBank[1].text = << 0, 1 >> /\ DefaultBank[2].text = << 0, 2 >>
  BY DEF DefaultBank, Question, Sections
<1>. QED  BY <1>1 DEF Normalized, IsInjective

\* A question is found by its id.
LEMMA FoundById ==
    ASSUME NEW questions, Normalized(questions), NEW i \in DOMAIN questions
    PROVE  Max({j \in DOMAIN questions : questions[j].id = questions[i].id}) = i
<1>1. {j \in DOMAIN questions : questions[j].id = questions[i].id} = {i}
  BY DEF Normalized
<1>2. i \in Nat
  BY QuestionsOf
<1>. QED  BY <1>1, <1>2, MaxIs

LEMMA StepTest == TestInv /\ [TestNext]_testVars => TestInv'
<1>. SUFFICES ASSUME TestInv, [TestNext]_testVars PROVE TestInv'
  OBVIOUS
<1>1. ASSUME NEW raw \in RawBanks, EditBank(raw) PROVE TestInv'
  <2> DEFINE given == [i \in DOMAIN raw |->
                         [id |-> raw[i].id, section |-> raw[i].section, trait |-> raw[i].trait,
                          text |-> << edits + 1, i >>]]
  <2>1. bank' = Normalize(given) /\ edits' = edits + 1 /\ UNCHANGED << shown, chosen, submission >>
    BY <1>1 DEF EditBank
  <2>2. PICK n \in 0..MaxQuestions : raw \in [1..n -> [id : GivenIds, section : Sections, trait : BOOLEAN]]
    BY DEF RawBanks
  <2>3. /\ given \in Seq(Question) /\ DOMAIN given = DOMAIN raw
        /\ \A i \in DOMAIN raw : given[i].text = << edits + 1, i >>
    <3>1. n \in Nat /\ edits + 1 \in Nat /\ GivenIds \subseteq Nat
      BY WrittenTestAssumption DEF TestInv
    <3>2. \A i \in 1..n : raw[i].id \in Nat /\ raw[i].section \in Sections /\ raw[i].trait \in BOOLEAN
      BY <2>2, <3>1
    <3>3. given \in [1..n -> Question]
      BY <2>2, <3>1, <3>2 DEF Question
    <3>. QED  BY <3>1, <3>3, SeqDef
  <2>4. Normalized(bank') /\ IsInjective([i \in DOMAIN bank' |-> bank'[i].text])
    <3> HIDE DEF given
    <3>1. CASE given = << >>
      BY <3>1, <2>1, DefaultIsNormalized DEF Normalize
    <3>2. CASE given # << >>
      BY <3>2, <2>1, <2>3, NormalizeGives DEF IsInjective
    <3>. QED  BY <3>1, <3>2
  <2>. QED  BY <2>1, <2>4 DEF TestInv
<1>2. CASE ShowTest
  <2>1. Normalize(bank) = bank
    BY NormalizeTwice DEF TestInv
  <2>2. /\ shown' = bank /\ chosen' \in [DOMAIN bank -> {0, 1}] /\ submission = NoTest
        /\ UNCHANGED << bank, submission, edits >>
    BY <1>2, <2>1 DEF ShowTest
  <2>. QED  BY <2>2 DEF TestInv
<1>3. CASE SubmitTest
  <2>1. Normalize(bank) = bank
    BY NormalizeTwice DEF TestInv
  <2>2. /\ shown # << >> /\ IdsIn(bank) \subseteq DOMAIN Answers
        /\ submission' = Grade(bank, Answers) /\ UNCHANGED << bank, shown, chosen, edits >>
    BY <1>3, <2>1 DEF SubmitTest
  <2> DEFINE details == [i \in DOMAIN bank |->
                           [id |-> bank[i].id, answer |-> Answers[bank[i].id],
                            correct |-> Counts(bank[i], Answers[bank[i].id])]]
  <2>3. submission' = [snapshot |-> bank, details |-> details,
                       score |-> Cardinality({i \in DOMAIN details : details[i].correct})]
    BY <2>2, Zenon DEF Grade
  <2>4. /\ DOMAIN details = DOMAIN bank
        /\ \A i \in DOMAIN bank : /\ details[i].id = bank[i].id /\ details[i].answer = Answers[bank[i].id]
                                  /\ details[i].correct = Counts(bank[i], details[i].answer)
    OBVIOUS
  <2>. HIDE DEF details
  <2>5. ASSUME bank = shown, NEW i \in DOMAIN shown PROVE details[i].answer = chosen[i]
    <3>1. shown[i].id \in IdsIn(shown)
      BY DEF IdsIn
    <3>2. Answers[shown[i].id] = chosen[Max({j \in DOMAIN shown : shown[j].id = shown[i].id})]
      BY <3>1, Zenon DEF Answers
    <3>3. Max({j \in DOMAIN shown : shown[j].id = shown[i].id}) = i
      BY <2>2, FoundById DEF TestInv
    <3>. QED  BY <2>4, <2>5, <3>2, <3>3
  <2>6. /\ submission'.snapshot = bank /\ submission'.details = details
        /\ submission'.score = Cardinality({i \in DOMAIN details : details[i].correct})
    BY <2>3
  <2>. QED  BY <2>2, <2>4, <2>5, <2>6 DEF TestInv
<1>4. CASE UNCHANGED testVars
  BY <1>4 DEF testVars, TestInv
<1>. QED  BY <1>1, <1>2, <1>3, <1>4 DEF TestNext

\* However many questions, ids and edits there are, the review of a written test shows what
\* was graded.
THEOREM ReviewIsFaithful == TestSpec => []ReviewShowsWhatWasGraded
<1>1. TestInit => TestInv
  BY DefaultIsNormalized DEF TestInit, TestInv
<1>2. TestInv => ReviewShowsWhatWasGraded
  <2>. SUFFICES ASSUME TestInv, submission # NoTest PROVE ReviewShowsWhatWasGraded
    BY DEF ReviewShowsWhatWasGraded
  <2> DEFINE q == submission.snapshot
             d == submission.details
  <2>1. /\ Normalized(q) /\ DOMAIN d = DOMAIN q
        /\ \A i \in DOMAIN q : d[i].id = q[i].id /\ d[i].correct = Counts(q[i], d[i].answer)
        /\ IsInjective([i \in DOMAIN q |-> q[i].text])
        /\ submission.score = Cardinality({i \in DOMAIN d : d[i].correct})
        /\ q = shown => \A i \in DOMAIN shown : d[i].answer = chosen[i]
    BY DEF TestInv
  <2>2. Normalize(q) = q
    BY <2>1, NormalizeTwice
  <2> DEFINE found(x) == ById(q, x.id)
             entry(x) == [text |-> found(x).text, section |-> found(x).section, answer |-> x.answer,
                          verdict |-> IF found(x).section # "test" THEN "none"
                                      ELSE IF x.correct THEN "right" ELSE "wrong"]
  <2>3. Review = [i \in DOMAIN d |-> entry(d[i])]
    BY <2>2, Zenon DEF Review
  <2>4. \A i \in DOMAIN q : ById(q, d[i].id) = q[i]
    BY <2>1, FoundById DEF ById
  <2>8. \A i \in DOMAIN q : q[i].section \in Sections
    BY <2>1, QuestionsOf DEF Question
  <2>. HIDE DEF q, d
  <2>5. /\ DOMAIN Review = DOMAIN q
        /\ \A i \in DOMAIN q : /\ Review[i].text = q[i].text /\ Review[i].answer = d[i].answer
                               /\ Review[i].verdict = IF q[i].section # "test" THEN "none"
                                                      ELSE IF d[i].correct THEN "right" ELSE "wrong"
    BY <2>1, <2>3, <2>4
  <2>6. ASSUME NEW i \in DOMAIN q
        PROVE  /\ Review[i].verdict = "none" <=> q[i].section = "personality"
               /\ Review[i].verdict = "right" => Counts(q[i], Review[i].answer)
               /\ d[i].correct <=> \/ Review[i].verdict = "right"
                                   \/ Review[i].verdict = "none" /\ Counts(q[i], Review[i].answer)
    BY <2>1, <2>5, <2>8 DEF Sections
  <2>9. {i \in DOMAIN Review : \/ Review[i].verdict = "right"
                               \/ Review[i].verdict = "none" /\ Counts(q[i], Review[i].answer)}
          = {i \in DOMAIN d : d[i].correct}
    BY <2>1, <2>5, <2>6
  <2>7. IsInjective([i \in DOMAIN Review |-> Review[i].text])
    BY <2>1, <2>5 DEF IsInjective
  <2>10. q = shown => \A i \in DOMAIN shown : Review[i].answer = chosen[i]
    BY <2>1, <2>5
  <2>. QED  BY <2>1, <2>5, <2>6, <2>7, <2>9, <2>10 DEF ReviewShowsWhatWasGraded, q
<1>. QED  BY <1>1, <1>2, StepTest, PTL DEF TestSpec
=============================================================================
