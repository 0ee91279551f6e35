------------------------------- MODULE Notes -------------------------------
(* Role notes (app/routers/notes.py): who may read, answer, resolve,        *)
(* archive and delete them (app/services/note_scope.py), and whom they may  *)
(* be sent to (note_recipients.py).  One request is served at a time and    *)
(* the rows of a handler are committed together; roles and teams stay.      *)
EXTENDS Integers, FiniteSets, Sequences

CONSTANTS Nobody,
          Admins, Reviewers, Leads, Reps,   \* ADMIN, QA, TEAM_MANAGER, AGENT
          LedReps,                          \* the agents of the managers' teams
          Messages,                         \* bound: the messages that are sent
          MaxNotes                          \* bound: notes, replies included

VARIABLES notes,      \* role_notes in the order of their ids
          revivers    \* who gave a deleted note another status

notesVars == << notes, revivers >>

Writers == Admins \cup Reviewers \cup Leads \cup Reps
NoteRoles == {"ADMIN", "QA", "TEAM_MANAGER", "AGENT"}
WithRole(role) == CASE role = "ADMIN" -> Admins [] role = "QA" -> Reviewers
                    [] role = "TEAM_MANAGER" -> Leads [] role = "AGENT" -> Reps [] OTHER -> {}

NotesInit == notes = << >> /\ revivers = {}

\* validate_note_context, for the employee a note is about
MayMention(by, about) ==
    \/ about = Nobody
    \/ by \in Admins \cup Reviewers
    \/ by \in Leads /\ about \in LedReps
    \/ by \in Reps /\ by = about

\* get_allowed_note_recipients; the types for a team's manager, leader and
\* for HR are left out
AllowedRecipients(by, type, about) ==
    CASE type = "QA_DISPUTE"   -> Reviewers
      [] type = "SYSTEM_ISSUE" -> Admins
      [] by \in Leads          -> Reviewers
      [] about # Nobody        -> {about}
      [] by \in Admins         -> Admins
      [] OTHER                 -> {}

\* validate_note_recipient: an employee, or whoever has a role
ValidRecipient(by, m) ==
    /\ {m.to, m.toRole} # {Nobody}
    /\ IF m.to # Nobody
       THEN by \in Admins \/ m.to \in AllowedRecipients(by, m.type, m.about)
       ELSE AllowedRecipients(by, m.type, m.about) \cap WithRole(m.toRole) # {}

\* Slip: the sender and the recipient are let in before the status is read.
CanReadOwn(by, m) ==
    \/ by \in Admins \cup {m.from, m.to}
    \/ /\ m.status # "DELETED"
       /\ \/ by \in WithRole(m.toRole) /\ MayMention(by, m.about)
          \/ m.shared /\ by \in Reps /\ m.about = by

\* can_user_read_note, which is also asked before a reply and a resolution
CanRead(by, m) ==
    \/ by \in Admins
    \/ /\ m.status # "DELETED"
       /\ \/ by \in {m.from, m.to}
          \/ by \in WithRole(m.toRole) /\ MayMention(by, m.about)
          \/ m.shared /\ by \in Reps /\ m.about = by

Root(n) == IF notes[n].parent # 0 THEN notes[n].parent ELSE n

\* RoleNoteCreate: to an employee, to a role, or (a reply) to nobody named
AnyMessage == [to : Writers \cup {Nobody}, toRole : NoteRoles \cup {Nobody}, about : Reps \cup {Nobody},
               type : {"QA_DISPUTE", "SYSTEM_ISSUE", "GENERAL"}, shared : BOOLEAN]

ASSUME NotesAssumption == LedReps \subseteq Reps /\ Messages \subseteq AnyMessage

NoteOf(by, m, parent) ==
    [from |-> by, to |-> m.to, toRole |-> m.toRole, about |-> m.about, shared |-> m.shared,
     parent |-> parent, status |-> "OPEN"]

WithStatus(n, status) == [notes EXCEPT ![n].status = status]

Revives(by, n) == revivers' = IF notes[n].status = "DELETED" THEN revivers \cup {by} ELSE revivers

----------------------------------------------------------------------------

\* create_note: any note may be named as the parent
CreateNote(by, m, parent) ==
    /\ Len(notes) < MaxNotes
    /\ MayMention(by, m.about) /\ ValidRecipient(by, m)
    /\ notes' = Append(notes, NoteOf(by, m, parent))
    /\ UNCHANGED revivers

\* reply_to_note: the root is asked for access and waits for a reply again,
\* whatever its status was; without a recipient the other side gets it
Reply(by, n, m) ==
    LET root  == notes[Root(n)]
        other == IF root.from # by THEN root.from ELSE root.to
        full  == [m EXCEPT !.to = IF {m.to, m.toRole} = {Nobody} THEN other ELSE @]
        held  == [full EXCEPT !.about = IF m.about = Nobody THEN root.about ELSE @]
    IN  /\ Len(notes) < MaxNotes
        /\ CanRead(by, root)
        /\ MayMention(by, m.about)
        /\ IF {m.to, m.toRole} = {Nobody} THEN other # Nobody ELSE ValidRecipient(by, m)
        /\ notes' = Append(WithStatus(Root(n), "WAITING_REPLY"), NoteOf(by, held, Root(n)))
        /\ Revives(by, Root(n))

\* mark_note_read
MarkRead(by, n) ==
    /\ CanRead(by, notes[n])
    /\ notes[n].status = "OPEN"
    /\ notes' = WithStatus(n, "READ")
    /\ UNCHANGED revivers

\* ALLOWED_STATUS_TRANSITIONS
Allowed(old) ==
    CASE old = "OPEN"          -> {"READ", "IN_PROGRESS", "WAITING_REPLY", "RESOLVED", "ARCHIVED"}
      [] old = "READ"          -> {"IN_PROGRESS", "WAITING_REPLY", "RESOLVED", "ARCHIVED"}
      [] old = "IN_PROGRESS"   -> {"WAITING_REPLY", "RESOLVED", "ARCHIVED"}
      [] old = "WAITING_REPLY" -> {"IN_PROGRESS", "RESOLVED", "ARCHIVED"}
      [] old = "RESOLVED"      -> {"ARCHIVED"}
      [] OTHER                 -> {}

\* update_note_status
MoveOn(by, n, status) ==
    /\ CanRead(by, notes[n])
    /\ status \in Allowed(notes[n].status)
    /\ notes' = WithStatus(n, status)
    /\ UNCHANGED revivers

\* resolve_note: from any status
Resolve(by, n) ==
    /\ CanRead(by, notes[n])
    /\ notes' = WithStatus(n, "RESOLVED")
    /\ Revives(by, n)

\* archive_note: from any status
Archive(by, n) ==
    /\ by \in Admins
    /\ notes' = WithStatus(n, "ARCHIVED")
    /\ Revives(by, n)

\* delete_note, soft_delete_note
Delete(by, n) ==
    /\ by \in Admins
    /\ notes' = WithStatus(n, "DELETED")
    /\ UNCHANGED revivers

NotesNext ==
    \/ \E by \in Writers, m \in Messages :
          \/ \E parent \in 0..Len(notes) : CreateNote(by, m, parent)
          \/ \E n \in DOMAIN notes : Reply(by, n, m)
    \/ \E by \in Writers, n \in DOMAIN notes :
          \/ MarkRead(by, n) \/ Resolve(by, n) \/ Archive(by, n) \/ Delete(by, n)
          \/ \E status \in Allowed(notes[n].status) : MoveOn(by, n, status)

----------------------------------------------------------------------------

\* A note an administrator deleted gets another status, and with it its
\* readers back, by the hand of an administrator only: no reply to its thread,
\* resolution or change of status by the people it was between does it.
OnlyAdminsReviveDeleted == revivers \subseteq Admins
=============================================================================
