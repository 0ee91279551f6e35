------------------------------ MODULE MCDesks ------------------------------
(* The record-keeping desks on small instances.  They share no state, so    *)
(* each behaviour follows one of them, `focus`, while the others rest in    *)
(* one of their initial states: the states checked are the union of the     *)
(* desks' state spaces, not their product.                                  *)
EXTENDS Directory, TeamRecords, Notes, Personnel, Violations, CandidateDocuments, WrittenTest

CONSTANTS boss, qa, tm, rep, k1, k2

\* A dispute to one reviewer and to all of them, a word to an agent, an
\* answer without a recipient, and a report to an administrator.
MCMessages ==
    { [to |-> qa, toRole |-> Nobody, about |-> rep, type |-> "QA_DISPUTE", shared |-> FALSE],
      [to |-> Nobody, toRole |-> "QA", about |-> rep, type |-> "QA_DISPUTE", shared |-> TRUE],
      [to |-> Nobody, toRole |-> "AGENT", about |-> rep, type |-> "GENERAL", shared |-> FALSE],
      [to |-> Nobody, toRole |-> Nobody, about |-> Nobody, type |-> "GENERAL", shared |-> TRUE],
      [to |-> boss, toRole |-> Nobody, about |-> Nobody, type |-> "SYSTEM_ISSUE", shared |-> FALSE] }

\* Of two kinds in the registry one spares the first occurrence, one none.
MCFlagTiers == (k1 :> {2, 3}) @@ (k2 :> {1, 2, 3})

VARIABLE focus

deskVars == << directoryVars, transferVars, thresholdVars, notesVars, personnelVars,
               violationVars, documentVars, testVars >>

\* The desks that may begin in more than one state, pinned while they rest.
TeamsPinned == /\ managerOf = [t \in Squads |-> CHOOSE m \in Managers : TRUE]
               /\ firstTeam = [a \in Agents |-> CHOOSE t \in Squads : TRUE]
BatchPinned == /\ batch = << >>
               /\ atomic = FALSE /\ defaultOk = TRUE
PathsPinned == pathOf = CHOOSE f \in [Docs -> Paths \cup {NoDoc}] :
                   /\ \A d \in Docs : f[d] # NoDoc <=> d \in OldDocs
                   /\ \A d, e \in OldDocs : f[d] = f[e] => d = e

RestingTransfers == TeamsPinned /\ assigned = [a \in Agents |-> << firstTeam[a] >>] /\ requests = << >>
RestingImport == /\ BatchPinned
                 /\ employees = {} /\ import = "received" /\ at = 1
                 /\ added = {} /\ failed = {} /\ unsaved = {} /\ others = {}

Init ==
    /\ focus \in {"directory", "transfers", "thresholds", "notes", "personnel",
                  "violations", "documents", "test"}
    /\ DirectoryInit /\ ThresholdsInit /\ NotesInit /\ ViolationsInit /\ TestInit
    /\ IF focus = "transfers" THEN TransfersInit ELSE RestingTransfers
    /\ IF focus = "personnel" THEN PersonnelInit ELSE RestingImport
    /\ DocumentsInit
    /\ focus # "documents" => PathsPinned

AtDirectory == /\ focus = "directory" /\ DirectoryNext
               /\ UNCHANGED << focus, transferVars, thresholdVars, notesVars, personnelVars, violationVars,
                               documentVars, testVars >>
AtTransfers == /\ focus = "transfers" /\ TransfersNext
               /\ UNCHANGED << focus, directoryVars, thresholdVars, notesVars, personnelVars, violationVars,
                               documentVars, testVars >>
AtThresholds == /\ focus = "thresholds" /\ ThresholdsNext
                /\ UNCHANGED << focus, directoryVars, transferVars, notesVars, personnelVars, violationVars,
                                documentVars, testVars >>
AtNotes == /\ focus = "notes" /\ NotesNext
           /\ UNCHANGED << focus, directoryVars, transferVars, thresholdVars, personnelVars, violationVars,
                           documentVars, testVars >>
AtPersonnel == /\ focus = "personnel" /\ PersonnelNext
               /\ UNCHANGED << focus, directoryVars, transferVars, thresholdVars, notesVars, violationVars,
                               documentVars, testVars >>
AtViolations == /\ focus = "violations" /\ ViolationsNext
                /\ UNCHANGED << focus, directoryVars, transferVars, thresholdVars, notesVars, personnelVars,
                                documentVars, testVars >>
AtDocuments == /\ focus = "documents" /\ DocumentsNext
               /\ UNCHANGED << focus, directoryVars, transferVars, thresholdVars, notesVars, personnelVars,
                               violationVars, testVars >>
AtTest == /\ focus = "test" /\ TestNext
          /\ UNCHANGED << focus, directoryVars, transferVars, thresholdVars, notesVars, personnelVars,
                          violationVars, documentVars >>

Next == \/ AtDirectory \/ AtTransfers \/ AtThresholds \/ AtNotes
        \/ AtPersonnel \/ AtViolations \/ AtDocuments \/ AtTest

Spec == Init /\ [][Next]_<< deskVars, focus >>
=============================================================================
