----------------------------- MODULE Personnel -----------------------------
(* Bulk onboarding (app/routers/hr.py, import_bulk_agents): a batch is       *)
(* checked as a whole, then its rows are checked again and committed one by *)
(* one, while other requests add employees.  What must be unique about an   *)
(* employee - code, email, national id - is a set of claims.                *)
EXTENDS Integers, FiniteSets, Sequences, SequencesExt

CONSTANTS Claims,       \* codes, emails and national ids, told apart
          BatchSize,    \* bound: rows of the batch
          Newcomers     \* bound: employees that other requests add

ASSUME PersonnelAssumption == {BatchSize, Newcomers} \subseteq Nat

VARIABLES employees,    \* the claims of each employee
          batch,        \* the rows: claims, valid, password
          atomic,       \* the query parameter
          defaultOk,    \* DEFAULT_EMPLOYEE_PASSWORD is strong enough
          import,       \* "received", "adding", "refused", "done", "dead"
          at,           \* the next row
          added,        \* the rows reported as successes
          failed,       \* the rows the second pass refused
          unsaved,      \* the rows reported because the database raised
          others        \* the claims that other requests took since the first pass

personnelVars == << employees, batch, atomic, defaultOk, import, at, added, failed, unsaved, others >>
outcome == << added, failed, unsaved >>

Rows == [claims : SUBSET Claims \ {{}}, valid : BOOLEAN, password : {"own", "default"}]

PersonnelInit ==
    /\ employees = {}
    /\ batch \in [1..BatchSize -> Rows]
    /\ atomic \in BOOLEAN /\ defaultOk \in BOOLEAN
    /\ import = "received"
    /\ at = 1 /\ added = {} /\ failed = {} /\ unsaved = {}
    /\ others = {}

Taken(claims) == claims \cap UNION employees # {}

\* seen_codes, seen_emails, seen_national_ids: rows with errors count as well
SeenBefore(i) == batch[i].claims \cap UNION {batch[j].claims : j \in 1..(i - 1)} # {}

\* The checks of a row, the same in both passes.
RowPasses(i) == batch[i].valid /\ ~Taken(batch[i].claims) /\ ~SeenBefore(i)

\* Slip: the first pass forgets what it has seen.
FirstPassAlone == \A i \in DOMAIN batch : batch[i].valid /\ ~Taken(batch[i].claims)

FirstPassPasses == \A i \in DOMAIN batch : RowPasses(i)

----------------------------------------------------------------------------

Refuse ==
    /\ import = "received"
    /\ atomic /\ ~FirstPassPasses
    /\ import' = "refused"
    /\ UNCHANGED << employees, batch, atomic, defaultOk, at, outcome, others >>

Accept ==
    /\ import = "received"
    /\ atomic => FirstPassPasses
    /\ import' = "adding"
    /\ UNCHANGED << employees, batch, atomic, defaultOk, at, outcome, others >>

\* The second pass of a row; the default password is checked only here.
SecondPassPasses(i) == RowPasses(i) /\ (batch[i].password = "default" => defaultOk)

\* The loop's next row; nothing of what happens to it ends the loop.
NextRow ==
    /\ import = "adding" /\ at <= Len(batch)
    /\ at' = at + 1
    /\ UNCHANGED << batch, atomic, defaultOk, import, others >>

AddRow ==
    /\ NextRow
    /\ SecondPassPasses(at)
    /\ employees' = employees \cup {batch[at].claims}
    /\ added' = added \cup {at}
    /\ UNCHANGED << failed, unsaved >>

RefuseRow ==
    /\ NextRow
    /\ ~SecondPassPasses(at)
    /\ failed' = failed \cup {at}
    /\ UNCHANGED << employees, added, unsaved >>

\* The insert or its commit raises, of a claim taken since the check for one, and is rolled
\* back; or the commit stands and reading the row back raises.
RowRaises ==
    /\ NextRow
    /\ SecondPassPasses(at)
    /\ employees' \in {employees, employees \cup {batch[at].claims}}
    /\ unsaved' = unsaved \cup {at}
    /\ UNCHANGED << added, failed >>

Answer == /\ import = "adding" /\ at > Len(batch)
          /\ import' = "done"
          /\ UNCHANGED << employees, batch, atomic, defaultOk, at, outcome, others >>

ImportDies == /\ import = "adding"
              /\ import' = "dead"
              /\ UNCHANGED << employees, batch, atomic, defaultOk, at, outcome, others >>

\* create_employee, convert_candidate, register_user: one employee, in one commit
AddElsewhere(claims) ==
    /\ Cardinality(employees \ {batch[i].claims : i \in 1..(at - 1)}) < Newcomers
    /\ ~Taken(claims)
    /\ employees' = employees \cup {claims}
    /\ others' = IF import = "adding" THEN others \cup claims ELSE others
    /\ UNCHANGED << batch, atomic, defaultOk, import, at, outcome >>

PersonnelNext ==
    \/ Refuse \/ Accept \/ AddRow \/ RefuseRow \/ RowRaises \/ Answer \/ ImportDies
    \/ \E claims \in SUBSET Claims \ {{}} : AddElsewhere(claims)

----------------------------------------------------------------------------

\* The first pass of an atomic import speaks for the second: a row that is refused after
\* all has no password of its own while the default one is weak, or lost a claim to an
\* employee that another request added in between, and never to a row of its own batch.
\* So an atomic import is whole when it ends, as the docstring has it without conditions
\* (app/routers/hr.py:792), if nobody came between, the default password is good and the
\* database took every row.
LateRefusalsHaveACause ==
    atomic =>
        /\ \A i \in failed :
              \/ batch[i].password = "default" /\ ~defaultOk
              \/ batch[i].claims \cap others # {}
        /\ import = "done" /\ defaultOk /\ others = {} /\ unsaved = {} => added = DOMAIN batch
=============================================================================
