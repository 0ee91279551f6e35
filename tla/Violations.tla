----------------------------- MODULE Violations ----------------------------
(* The violations of an agent (app/violations.py): the workers number them  *)
(* while they evaluate calls, the number picks the penalty, and QA and then *)
(* HR approve those that are flagged (app/routers/hr.py).                   *)
EXTENDS Integers, FiniteSets, Sequences, SequencesExt

CONSTANTS Idle,
          Kinds,        \* entries of VIOLATION_REGISTRY
          FlagTiers,    \* the tiers of a kind that HR has to see, hr_flag_on
          Workers, CallIds,
          MaxListed     \* bound: violations the model lists in one call

ASSUME ViolationsAssumption == /\ MaxListed \in Nat /\ Idle \notin CallIds
                               /\ FlagTiers \in [Kinds -> SUBSET (1..3)]

VARIABLES violations,   \* agent_violations of one agent in the order of their ids
          evaluating,   \* the call of each worker and what its session will insert
          evaluated,    \* the calls with an outcome, which are not evaluated again
          mingled,      \* numbers were read beside others
          thinned       \* numbered rows were taken away below others

violationVars == << violations, evaluating, evaluated, mingled, thinned >>

Nothing == [call |-> Idle, listed |-> FALSE, rows |-> << >>]

ViolationsInit ==
    /\ violations = << >>
    /\ evaluating = [w \in Workers |-> Nothing]
    /\ evaluated = {}
    /\ mingled = FALSE /\ thinned = FALSE

\* Slip: only the violations HR has to see are counted.
FlaggedOccurrence(kind) ==
    Cardinality({i \in DOMAIN violations : violations[i].kind = kind /\ violations[i].flagged}) + 1

\* Slip: the violations of all kinds are counted.
AnyOccurrence(kind) == Len(violations) + 1

\* get_occurrence: the session does not flush before a query, so the rows the
\* same call has added are not counted
Occurrence(kind) == Cardinality({i \in DOMAIN violations : violations[i].kind = kind}) + 1

\* get_penalty: three tiers, and some of a kind's are flagged for HR
Tier(occurrence) == IF occurrence < 3 THEN occurrence ELSE 3
Flagged(kind, occurrence) == Tier(occurrence) \in FlagTiers[kind]

NewViolation(kind, call) ==
    [kind |-> kind, call |-> call, occurrence |-> Occurrence(kind),
     flagged |-> Flagged(kind, Occurrence(kind)), qa |-> FALSE, hr |-> FALSE]

Running(call) == \E w \in Workers : evaluating[w].call = call

\* delete(AgentViolation).where(call_id == call): the rows that stay, in their order
Without(call) ==
    LET rest[i \in 0..Len(violations)] ==
            IF i = 0 THEN << >>
            ELSE IF violations[i].call = call THEN rest[i - 1] ELSE Append(rest[i - 1], violations[i])
    IN  rest[Len(violations)]

\* A worker takes a call: what a failed evaluation of it left is deleted.
TakeCall(w, call) ==
    /\ evaluating[w].call = Idle /\ ~Running(call) /\ call \notin evaluated
    /\ evaluating' = [evaluating EXCEPT ![w].call = call]
    /\ violations' = Without(call)
    /\ thinned' = (thinned \/ \E i \in DOMAIN violations :
                      /\ violations[i].call = call
                      /\ \/ \E j \in DOMAIN violations : i < j /\ violations[j].call # call
                         \/ \E v \in Workers : evaluating[v].listed)
    /\ UNCHANGED << evaluated, mingled >>

\* apply_violations
ApplyViolations(w, listed) ==
    LET call == evaluating[w].call IN
    /\ call # Idle /\ ~evaluating[w].listed
    /\ evaluating' = [evaluating EXCEPT ![w] = [call |-> call, listed |-> TRUE,
                         rows |-> [i \in DOMAIN listed |-> NewViolation(listed[i], call)]]]
    /\ mingled' = (mingled \/ ~IsInjective(listed) \/ \E v \in Workers \ {w} : evaluating[v].listed)
    /\ UNCHANGED << violations, evaluated, thinned >>

\* The evaluation is committed with its outcome, or fails after the flush and
\* the error handler commits the violations alone.
CommitEvaluation(w) ==
    /\ evaluating[w].listed
    /\ violations' = violations \o evaluating[w].rows
    /\ evaluated' \in {evaluated, evaluated \cup {evaluating[w].call}}
    /\ evaluating' = [evaluating EXCEPT ![w] = Nothing]
    /\ UNCHANGED << mingled, thinned >>

EvaluationDies(w) ==
    /\ evaluating[w].call # Idle
    /\ evaluating' = [evaluating EXCEPT ![w] = Nothing]
    /\ UNCHANGED << violations, evaluated, mingled, thinned >>

\* qa_approve_violation
QaApprove(i) ==
    /\ violations[i].flagged /\ ~violations[i].qa
    /\ violations' = [violations EXCEPT ![i].qa = TRUE]
    /\ UNCHANGED << evaluating, evaluated, mingled, thinned >>

\* approve_violation
HrApprove(i) ==
    /\ violations[i].flagged /\ ~violations[i].hr /\ violations[i].qa
    /\ violations' = [violations EXCEPT ![i].hr = TRUE]
    /\ UNCHANGED << evaluating, evaluated, mingled, thinned >>

Listings == UNION {[1..n -> Kinds] : n \in 0..MaxListed}

ViolationsNext ==
    \/ \E w \in Workers : \/ \E call \in CallIds : TakeCall(w, call)
                          \/ \E listed \in Listings : ApplyViolations(w, listed)
                          \/ CommitEvaluation(w) \/ EvaluationDies(w)
    \/ \E i \in DOMAIN violations : QaApprove(i) \/ HrApprove(i)

----------------------------------------------------------------------------

\* The place of a violation among those of its kind.
Turn(i) == Cardinality({j \in 1..i : violations[j].kind = violations[i].kind})

\* An agent is not punished for more violations than it has: whatever workers number at
\* once and however often the model lists a kind in a call, a violation has no higher
\* number than its place among those of its kind, unless a failed evaluation was redone
\* after later ones.
NoneCountedAbove ==
    ~thinned => \A i \in DOMAIN violations : violations[i].occurrence <= Turn(i)

\* Numbered one evaluation after another, with no kind twice in a call and none redone
\* after later ones, an agent's violations of a kind are 1, 2, 3 ..., deaths of workers
\* included, and those go to HR whose turn in that row is a tier HR has to see; HR has
\* approved only what QA approved before.
OccurrencesCountUp ==
    /\ ~mingled /\ ~thinned =>
          \A i \in DOMAIN violations :
              /\ violations[i].occurrence = Turn(i)
              /\ violations[i].flagged <=> Tier(Turn(i)) \in FlagTiers[violations[i].kind]
    /\ \A i \in DOMAIN violations : violations[i].hr => violations[i].qa
=============================================================================
