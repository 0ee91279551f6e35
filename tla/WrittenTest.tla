---------------------------- MODULE WrittenTest ----------------------------
(* The written test of a job: how its question bank is normalized, how a    *)
(* candidate's answers are graded and how staff see them again              *)
(* (app/services/interview_mcq.py), over edits of the bank in between.  A   *)
(* question has two options, of which 0 is the right one; of a trait        *)
(* question - a soft skill, or one with trait tags - every option counts.   *)
EXTENDS Integers, FiniteSets, Sequences, SequencesExt

CONSTANTS NoTest,
          GivenIds,        \* bound: ids that staff give questions; 0 is none
          MaxQuestions,    \* bound: questions of a bank
          MaxEdits         \* bound: edits of the bank

ASSUME WrittenTestAssumption == GivenIds \subseteq Nat /\ {MaxQuestions, MaxEdits} \subseteq Nat

VARIABLES bank,         \* interview_jobs.mcq_questions
          shown,        \* the bank the candidate has before him
          chosen,       \* the option he means, of each question he sees
          submission,   \* interview_mcq_submissions
          edits

testVars == << bank, shown, chosen, submission, edits >>

\* Where the review lists a question: the categories iq and computer make up the test, any
\* other category is taken for personality.
Sections == {"test", "personality"}

\* Slip: a used id is replaced by the position.
IdsByPosition(raw) ==
    LET own(i) == IF raw[i].id = 0 THEN i ELSE raw[i].id
        ids[i \in 0..Len(raw)] ==
            IF i = 0 THEN << >>
            ELSE Append(ids[i - 1], IF Contains(ids[i - 1], own(i)) THEN i ELSE own(i))
    IN  ids[Len(raw)]

\* normalize_mcq_bank, the ids: a question without one gets its position, one
\* whose id was used before gets the highest id so far and one
IdsOf(raw) ==
    LET own(i) == IF raw[i].id = 0 THEN i ELSE raw[i].id
        ids[i \in 0..Len(raw)] ==
            IF i = 0 THEN << >>
            ELSE Append(ids[i - 1], IF Contains(ids[i - 1], own(i)) THEN Max(ToSet(ids[i - 1])) + 1 ELSE own(i))
    IN  ids[Len(raw)]

\* DEFAULT_INTERVIEW_MCQ_BANK stands in for an empty bank.
DefaultBank == << [id |-> 1, section |-> "test", trait |-> FALSE, text |-> << 0, 1 >>],
                  [id |-> 2, section |-> "personality", trait |-> TRUE, text |-> << 0, 2 >>] >>

Normalize(raw) == IF raw = << >> THEN DefaultBank
                  ELSE [i \in DOMAIN raw |-> [raw[i] EXCEPT !.id = IdsOf(raw)[i]]]

\* A dictionary by id: the last question with an id is the one that is found.
ById(questions, id) == questions[Max({i \in DOMAIN questions : questions[i].id = id})]
IdsIn(questions) == {questions[i].id : i \in DOMAIN questions}

TestInit ==
    /\ bank = DefaultBank
    /\ shown = << >> /\ chosen = << >>
    /\ submission = NoTest
    /\ edits = 0

----------------------------------------------------------------------------

\* create_interview_job, update_interview_job
EditBank(raw) ==
    /\ edits < MaxEdits /\ edits' = edits + 1
    /\ bank' = Normalize([i \in DOMAIN raw |->
                  [id |-> raw[i].id, section |-> raw[i].section, trait |-> raw[i].trait,
                   text |-> << edits + 1, i >>]])
    /\ UNCHANGED << shown, chosen, submission >>

\* get_interview_mcq_questions: the candidate reads the bank and makes up his mind
ShowTest ==
    /\ submission = NoTest
    /\ shown' = Normalize(bank)
    /\ chosen' \in [DOMAIN Normalize(bank) -> {0, 1}]
    /\ UNCHANGED << bank, submission, edits >>

\* The payload: one option for each id on the page.
Answers == [id \in IdsIn(shown) |-> chosen[Max({i \in DOMAIN shown : shown[i].id = id})]]

Counts(question, answer) == question.trait \/ answer = 0

\* grade_mcq_answers
Grade(questions, answers) ==
    LET detail(q) == [id |-> q.id, answer |-> answers[q.id], correct |-> Counts(q, answers[q.id])]
        details   == [i \in DOMAIN questions |-> detail(questions[i])]
    IN  [snapshot |-> questions, details |-> details,
         score |-> Cardinality({i \in DOMAIN details : details[i].correct})]

\* submit_interview_mcq: once for a session; an answer that is missing is
\* refused, ids the bank does not have are passed over
SubmitTest ==
    LET questions == Normalize(Normalize(bank)) IN
    /\ submission = NoTest /\ shown # << >>
    /\ IdsIn(questions) \subseteq DOMAIN Answers
    /\ submission' = Grade(questions, Answers)
    /\ UNCHANGED << bank, shown, chosen, edits >>

\* format_mcq_results_for_review: the stored details, each with the question its id has in
\* the stored bank; only the test's questions are shown with their verdict.
Review ==
    LET questions == Normalize(submission.snapshot)
        entry(d)  == LET q == ById(questions, d.id)
                     IN  [text |-> q.text, section |-> q.section, answer |-> d.answer,
                          verdict |-> IF q.section # "test" THEN "none"
                                      ELSE IF d.correct THEN "right" ELSE "wrong"]
    IN  [i \in DOMAIN submission.details |-> entry(submission.details[i])]

RawBanks == UNION {[1..n -> [id : GivenIds, section : Sections, trait : BOOLEAN]] : n \in 0..MaxQuestions}

TestNext == \/ \E raw \in RawBanks : EditBank(raw)
            \/ ShowTest \/ SubmitTest

----------------------------------------------------------------------------

\* Whatever ids staff gave the questions and however they edit them later, the review of a
\* written test has each question that was graded, once, with the answer that was graded; a
\* question of the test has its own verdict and any other has none, and the score is the
\* number of right verdicts and of the answers that counted among those shown without one.
\* When the bank was not edited while the candidate wrote, these are the questions he saw
\* and the options he meant.
ReviewShowsWhatWasGraded ==
    submission # NoTest =>
        LET asked(i) == submission.snapshot[i]
            given(i) == Review[i].answer
        IN  /\ DOMAIN Review = DOMAIN submission.snapshot
            /\ \A i \in DOMAIN Review :
                  /\ Review[i].text = asked(i).text
                  /\ Review[i].verdict = "none" <=> asked(i).section = "personality"
                  /\ Review[i].verdict = "right" => Counts(asked(i), given(i))
            /\ IsInjective([i \in DOMAIN Review |-> Review[i].text])
            /\ submission.score = Cardinality({i \in DOMAIN Review :
                  \/ Review[i].verdict = "right"
                  \/ Review[i].verdict = "none" /\ Counts(asked(i), given(i))})
            /\ submission.snapshot = shown => \A i \in DOMAIN shown : given(i) = chosen[i]
=============================================================================
