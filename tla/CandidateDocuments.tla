------------------------- MODULE CandidateDocuments ------------------------
(* The files of candidates: uploads by staff (app/routers/interviews.py)    *)
(* and from the portal (interview_portal.py), their encryption in place     *)
(* (interview_file_crypto.py), the backfill at start-up                     *)
(* (interview_security_backfill.py) and the purge (interview_retention.py). *)
(* An upload runs on the event loop without an await between its first      *)
(* write and its commit; the purge runs in a thread beside it.              *)
EXTENDS Integers, FiniteSets

CONSTANTS NoDoc,
          Docs,       \* the documents of one candidate; each has content of its own
          OldDocs,    \* those stored before files were encrypted
          Paths,      \* storage paths, enough for one each
          MaxDeaths   \* bound: restarts of the API

ASSUME DocumentsAssumption == OldDocs \subseteq Docs /\ NoDoc \notin Docs \cup Paths /\ MaxDeaths \in Nat

VARIABLES rows,      \* interview_candidate_documents that are committed
          pathOf,    \* storage_path
          files,     \* the files: whose content, under how many layers of encryption
          upload,    \* the upload in the event loop
          purge,     \* the purge: "idle", "removing", or "purged" for ever
          backfill,  \* the rows the start-up has handled, not committed yet
          api,       \* "starting" or "serving"
          spoilt,    \* documents that shared a path, or met a death half way
          deaths

documentVars == << rows, pathOf, files, upload, purge, backfill, api, spoilt, deaths >>

NoUpload == [doc |-> NoDoc, pc |-> "idle"]
NoFile == [of |-> NoDoc, layers |-> 0]

DocumentsInit ==
    /\ rows = [d \in OldDocs |-> FALSE]    \* is_encrypted
    /\ pathOf \in [Docs -> Paths \cup {NoDoc}]
    /\ \A d \in Docs : pathOf[d] # NoDoc <=> d \in OldDocs
    /\ \A d, e \in OldDocs : pathOf[d] = pathOf[e] => d = e
    /\ files = [p \in Paths |-> IF \E d \in OldDocs : pathOf[d] = p
                               THEN [of |-> CHOOSE d \in OldDocs : pathOf[d] = p, layers |-> 0] ELSE NoFile]
    /\ upload = NoUpload /\ purge = "idle" /\ backfill = {} /\ api = "starting"
    /\ spoilt = {} /\ deaths = 0

At(p) == {d \in Docs : pathOf[d] = p}

\* encrypt_file_in_place
Encrypted(p) == [files EXCEPT ![p].layers = @ + 1]

----------------------------------------------------------------------------
(* Uploads. *)

\* A staff upload is named by candidate, second and file name, so two in one
\* second may meet; the name of a portal upload is unique.
WriteUpload(d, p) ==
    /\ api = "serving" /\ upload = NoUpload
    /\ pathOf[d] = NoDoc
    /\ files' = [files EXCEPT ![p] = [of |-> d, layers |-> 0]]
    /\ pathOf' = [pathOf EXCEPT ![d] = p]
    /\ spoilt' = spoilt \cup At(p)
    /\ upload' = [doc |-> d, pc |-> "written"]
    /\ UNCHANGED << rows, purge, backfill, api, deaths >>

EncryptUpload ==
    /\ upload.pc = "written"
    /\ files[pathOf[upload.doc]] # NoFile
    /\ files' = Encrypted(pathOf[upload.doc])
    /\ upload' = [upload EXCEPT !.pc = "encrypted"]
    /\ UNCHANGED << rows, pathOf, purge, backfill, api, spoilt, deaths >>

\* The file cannot be read or encrypted: it is removed, the row rolled back.
UploadFails ==
    /\ upload.pc = "written"
    /\ files' = [files EXCEPT ![pathOf[upload.doc]] = NoFile]
    /\ spoilt' = spoilt \cup At(pathOf[upload.doc])
    /\ upload' = NoUpload
    /\ UNCHANGED << rows, pathOf, purge, backfill, api, deaths >>

\* The row refers to the candidate, so the commit fails once the purge's has
\* come through, and the file stays behind.
CommitUpload ==
    /\ upload.pc = "encrypted"
    /\ rows' = IF purge = "purged" THEN rows ELSE [d \in DOMAIN rows \cup {upload.doc} |->
                  IF d = upload.doc THEN TRUE ELSE rows[d]]
    /\ upload' = NoUpload
    /\ UNCHANGED << pathOf, files, purge, backfill, api, spoilt, deaths >>

----------------------------------------------------------------------------
(* Purge: the files go first, the rows with the commit of the endpoint. *)

PurgeFiles ==
    /\ api = "serving" /\ purge = "idle"
    /\ files' = [p \in Paths |-> IF At(p) \cap DOMAIN rows # {} THEN NoFile ELSE files[p]]
    /\ purge' = "removing"
    /\ spoilt' = spoilt \cup UNION {At(pathOf[d]) : d \in DOMAIN rows}
    /\ UNCHANGED << rows, pathOf, upload, backfill, api, deaths >>

\* The cascade deletes the rows there are now.
PurgeRows ==
    /\ purge = "removing"
    /\ rows' = << >>
    /\ purge' = "purged"
    /\ UNCHANGED << pathOf, files, upload, backfill, api, spoilt, deaths >>

----------------------------------------------------------------------------
(* Start-up. *)

\* Slip: the mark of a row is not looked at.
ToSecureAgain == DOMAIN rows \ backfill

ToSecure == {d \in DOMAIN rows \ backfill : ~rows[d]}

\* backfill_interview_document_security: a missing file is passed over
BackfillFile(d) ==
    /\ api = "starting"
    /\ d \in ToSecure
    /\ files[pathOf[d]] # NoFile
    /\ files' = Encrypted(pathOf[d])
    /\ backfill' = backfill \cup {d}
    /\ UNCHANGED << rows, pathOf, upload, purge, api, spoilt, deaths >>

BackfillCommit ==
    /\ api = "starting"
    /\ \A d \in ToSecure : files[pathOf[d]] = NoFile
    /\ rows' = [d \in DOMAIN rows |-> rows[d] \/ d \in backfill]
    /\ backfill' = {}
    /\ api' = "serving"
    /\ UNCHANGED << pathOf, files, upload, purge, spoilt, deaths >>

ApiRestarts ==
    /\ deaths < MaxDeaths /\ deaths' = deaths + 1
    /\ api' = "starting"
    /\ spoilt' = spoilt \cup backfill
    /\ backfill' = {} /\ upload' = NoUpload
    /\ purge' = IF purge = "removing" THEN "idle" ELSE purge
    /\ UNCHANGED << rows, pathOf, files >>

DocumentsNext ==
    \/ \E d \in Docs, p \in Paths : WriteUpload(d, p)
    \/ EncryptUpload \/ UploadFails \/ CommitUpload
    \/ PurgeFiles \/ PurgeRows
    \/ \E d \in Docs : BackfillFile(d)
    \/ BackfillCommit \/ ApiRestarts

----------------------------------------------------------------------------

\* A stored document can be read back: its file has its content, under one
\* layer of encryption when its row says so and under none otherwise, over
\* uploads, failures, purges and restarts - unless it shared its path with
\* another, its purge was under way, or the API died between the encryption of
\* its file at start-up and the commit.
DocumentsReadable ==
    \A d \in DOMAIN rows \ (spoilt \cup backfill) :
        files[pathOf[d]] = [of |-> d, layers |-> IF rows[d] THEN 1 ELSE 0]
=============================================================================
