---------------------------- MODULE TeamRecords ----------------------------
(* Who works in which team and against which targets: transfer requests     *)
(* (app/routers/team_manager.py) and their review, campaigns and KPI        *)
(* thresholds (app/routers/admin.py).  One request is served at a time; a   *)
(* handler commits its rows together.  Teams, their managers and the first  *)
(* assignments come from the seed data: no endpoint changes them.           *)
EXTENDS Integers, FiniteSets, Sequences, SequencesExt

CONSTANTS NoTeam,
          Agents, Squads,    \* agents, teams
          OpenSquads,        \* the teams that are active
          Managers,          \* team managers; an administrator is one more requester
          Administrator,
          Campaigns,
          MaxRequests,       \* bound: transfer requests
          MaxThresholds      \* bound: threshold rows

ASSUME TeamRecordsAssumption ==
    /\ OpenSquads \subseteq Squads
    /\ NoTeam \notin Squads /\ Administrator \notin Managers

VARIABLES managerOf,    \* teams.manager_id, from the seed data
          firstTeam,    \* the team of the seeded assignment
          assigned,     \* the active employee_team_assignments, one per row
          requests,     \* agent_transfer_requests in the order of their ids
          campaigns,    \* those that exist
          thresholds    \* kpi_threshold_configs in the order of their ids

transferVars == << managerOf, firstTeam, assigned, requests >>
thresholdVars == << campaigns, thresholds >>

TransfersInit ==
    /\ managerOf \in [Squads -> Managers]
    /\ firstTeam \in [Agents -> Squads]
    /\ assigned = [a \in Agents |-> << firstTeam[a] >>]
    /\ requests = << >>

ThresholdsInit == campaigns = {} /\ thresholds = << >>

----------------------------------------------------------------------------
(* Transfers. *)

WorksIn(a, t) == Contains(assigned[a], t)

\* get_managed_team_ids, is_team_in_manager_scope, is_agent_in_manager_scope
Manages(by, t) == t \in OpenSquads /\ managerOf[t] = by
ManagesAgent(by, a) == \E t \in Squads : Manages(by, t) /\ WorksIn(a, t)

PendingFor(a) == {i \in DOMAIN requests : requests[i].agent = a /\ requests[i].status = "PENDING"}

\* Slip: only the newest request is looked at.
NothingPendingLately(a) ==
    \A i \in DOMAIN requests \cap {Len(requests)} : requests[i].agent = a => requests[i].status # "PENDING"

NothingPending(a) == PendingFor(a) = {}

\* create_transfer_request
RequestTransfer(by, a, from, to) ==
    /\ Len(requests) < MaxRequests
    /\ to # from
    /\ by # Administrator => ManagesAgent(by, a) /\ Manages(by, from)
    /\ WorksIn(a, from)
    /\ to \in OpenSquads
    /\ NothingPending(a)
    /\ requests' = Append(requests, [agent |-> a, from |-> from, to |-> to, by |-> by, status |-> "PENDING"])
    /\ UNCHANGED << managerOf, firstTeam, assigned >>

\* cancel_transfer_request
CancelTransfer(by, i) ==
    /\ requests[i].status = "PENDING"
    /\ by \in {Administrator, requests[i].by}
    /\ requests' = [requests EXCEPT ![i].status = "CANCELED"]
    /\ UNCHANGED << managerOf, firstTeam, assigned >>

\* What review_transfer_request asks before it approves.
StillMovable(r) == assigned[r.agent] = << r.from >>

\* review_transfer_request, administrators only
ReviewTransfer(i, verdict) ==
    LET r == requests[i]
    IN  /\ r.status = "PENDING"
        /\ verdict = "APPROVED" => StillMovable(r)
        /\ requests' = [requests EXCEPT ![i].status = verdict]
        /\ assigned' = IF verdict = "APPROVED" THEN [assigned EXCEPT ![r.agent] = Append(Tail(@), r.to)]
                       ELSE assigned
        /\ UNCHANGED << managerOf, firstTeam >>

TransfersNext ==
    \/ \E by \in Managers \cup {Administrator}, a \in Agents, from, to \in Squads :
          RequestTransfer(by, a, from, to)
    \/ \E i \in DOMAIN requests :
          \/ \E by \in Managers \cup {Administrator} : CancelTransfer(by, i)
          \/ \E verdict \in {"APPROVED", "REJECTED"} : ReviewTransfer(i, verdict)

----------------------------------------------------------------------------
(* Campaigns and thresholds, administrators only. *)

CreateCampaign(c) ==
    /\ c \notin campaigns
    /\ campaigns' = campaigns \cup {c}
    /\ UNCHANGED thresholds

\* delete_campaign: refused while a row refers to the campaign
DeleteCampaign(c) ==
    /\ c \in campaigns
    /\ \A i \in DOMAIN thresholds : thresholds[i].scope # c
    /\ campaigns' = campaigns \ {c}
    /\ UNCHANGED thresholds

\* _check_duplicate_active_threshold, of another row than i
NoOtherInForce(i, scope) ==
    \A j \in DOMAIN thresholds \ {i} : thresholds[j].active => thresholds[j].scope # scope

\* create_kpi_threshold: for a team or for a campaign
CreateThreshold(scope, active) ==
    /\ Len(thresholds) < MaxThresholds
    /\ scope \in Squads \cup campaigns
    /\ active => NoOtherInForce(0, scope)
    /\ thresholds' = Append(thresholds, [scope |-> scope, active |-> active])
    /\ UNCHANGED campaigns

\* Slip: a row that is switched on again is not compared.
SwitchesOnFreely(i) == TRUE

\* What update_kpi_threshold asks before it switches a row on.
MaySwitchOn(i) == NoOtherInForce(i, thresholds[i].scope)

\* update_kpi_threshold
SwitchThreshold(i, active) ==
    /\ active => MaySwitchOn(i)
    /\ thresholds' = [thresholds EXCEPT ![i].active = active]
    /\ UNCHANGED campaigns

ThresholdsNext ==
    \/ \E c \in Campaigns : CreateCampaign(c) \/ DeleteCampaign(c)
    \/ \E scope \in Squads \cup campaigns, active \in BOOLEAN : CreateThreshold(scope, active)
    \/ \E i \in DOMAIN thresholds, active \in BOOLEAN : SwitchThreshold(i, active)

----------------------------------------------------------------------------

Approved(a) == {i \in DOMAIN requests : requests[i].agent = a /\ requests[i].status = "APPROVED"}

\* Where the requests with ids below i have brought the agent.
TeamBefore(a, i) ==
    LET earlier == {j \in Approved(a) : j < i}
    IN  IF earlier = {} THEN firstTeam[a] ELSE requests[Max(earlier)].to

\* An agent has one request under review at most, and the approved ones lead,
\* one after the other, from the team the agent began in to the one team the
\* agent works in now: no transfer is approved out of its turn or twice.
TransfersAreAChain ==
    \A a \in Agents :
        /\ Cardinality(PendingFor(a)) <= 1
        /\ \A i \in Approved(a) : requests[i].from = TeamBefore(a, i)
        /\ assigned[a] = << TeamBefore(a, Len(requests) + 1) >>

\* One threshold of a KPI is in force for a team or a campaign, whatever rows
\* are created, switched off and on again, and its campaign exists.
OneThresholdInForce ==
    /\ \A i, j \in DOMAIN thresholds :
          thresholds[i].active /\ thresholds[j].active /\ thresholds[i].scope = thresholds[j].scope => i = j
    /\ \A i \in DOMAIN thresholds : thresholds[i].scope \in Squads \cup campaigns
=============================================================================
