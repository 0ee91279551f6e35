------------------------------ MODULE Accounts ------------------------------
(* Who may use the system: login, one-time codes, password reset and logout *)
(* of app/routers/auth.py, the session, device and shift policy of          *)
(* app/services/security_policy.py, its administration in app/routers/      *)
(* security_admin.py and the guarded websockets of app/routers/             *)
(* websocket_router.py.  A request that reads the policy's rows and commits *)
(* later is two steps, and other requests run in between.                   *)
EXTENDS Integers, FiniteSets, FiniteSetsExt

CONSTANTS None,
          Employees, Devices, Sockets,
          Sessions, Challenges,   \* ids, given out in order
          Requests,          \* login, verification and reset requests in progress
          Modes,             \* SECURITY_POLICY_MODE of the deployment
          MaxAttempts,       \* LOGIN_OTP_MAX_ATTEMPTS
          DayLength,         \* instants of a day
          Days,              \* 0..n, the dates of the calendar
          Shapes,            \* start, end and graces a shift may be given
          Rosters,           \* the rows an employee may begin with, per date
          SessionLength, CodeLength,   \* instants a session, a code lasts
          MaxEdits           \* bound: administrative changes

NoShift == [status |-> "none"]
Shift(x, status) == [status |-> status, start |-> x.start, end |-> x.end,
                     before |-> x.before, after |-> x.after]
ShiftRows == {NoShift} \cup {Shift(x, status) : x \in Shapes, status \in {"scheduled", "cancelled"}}

ASSUME AccountsAssumption ==
    /\ {MaxAttempts, DayLength} \subseteq Nat \ {0}
    /\ {SessionLength, CodeLength, MaxEdits} \subseteq Nat
    /\ Modes \subseteq {"off", "audit", "enforce"}
    /\ Days \subseteq Nat /\ Sessions \subseteq Nat /\ Challenges \subseteq Nat
    /\ \A x \in Shapes : /\ x.start \in 0..DayLength-1 /\ x.end \in 0..DayLength-1
                         /\ x.before \in Nat /\ x.after \in Nat
    /\ Rosters \subseteq [Days -> ShiftRows]

VARIABLES mode,       \* get_policy_mode(), fixed while the deployment runs
          now,        \* local time, in instants since the first date
          account,    \* per employee: active, otp (otp_email is set), password (resets so far)
          shifts,     \* employee_shifts: the row of an employee and a date
          devices,    \* trusted_devices: the row of an employee and a device
          sessions,   \* user_sessions, and the token that carries each one's claims
          challenges, \* login_otp_challenges
          requests,   \* what a request holds between its reads and its commit
          sockets,    \* the session each websocket was admitted with
          edits

policy == << mode, now, shifts, devices >>
vars == << mode, now, account, shifts, devices, sessions, challenges,
           requests, sockets, edits >>

Horizon == (Max(Days) + 1) * DayLength - 1
NoDevice == "no device"     \* a token gets the hash of "legacy-device:<id>" instead

\* left: the instants until expires_at.
SessionRow == [employee : Employees, device : Devices \cup {NoDevice}, active : BOOLEAN,
               left : 0..SessionLength, code : Challenges \cup {None}]
ChallengeRow == [purpose : {"LOGIN", "PASSWORD_RESET"}, employee : Employees,
                 device : Devices \cup {NoDevice}, left : 0..CodeLength,
                 attempts : 0..MaxAttempts, used : BOOLEAN]

ASSUME RowsAssumption == None \notin SessionRow \cup ChallengeRow \cup Challenges

\* pc: "issue" has passed the policy, "verified" holds a right code too, "reset" a right
\* reset code.  enrols: the device was flushed as the first trusted one.
Idle == [pc |-> "idle", employee |-> None, device |-> NoDevice, code |-> None, enrols |-> FALSE]

Init ==
    /\ mode \in Modes
    /\ now = 0
    /\ account \in [Employees -> [active : {TRUE}, otp : BOOLEAN, password : {0}]]
    /\ shifts \in [Employees -> Rosters]
    /\ devices = [e \in Employees |-> [d \in Devices |-> "none"]]
    /\ sessions = [k \in Sessions |-> None]
    /\ challenges = [c \in Challenges |-> None]
    /\ requests = [r \in Requests |-> Idle]
    /\ sockets = [s \in Sockets |-> None]
    /\ edits = 0

----------------------------------------------------------------------------
(* The policy. *)

\* check_shift_time_allowance: an end not after the start is on the next date.
Covers(row, day) ==
    LET start == day * DayLength + row.start
        end == (IF row.end <= row.start THEN day + 1 ELSE day) * DayLength + row.end
    IN  row.status = "scheduled" /\ start - row.before <= now /\ now <= end + row.after

Today == now \div DayLength

\* Slip: the shift that began yesterday is not looked at.
OnlyToday(e) == \E day \in {Today} \cap Days : shifts[e][day] # NoShift /\ Covers(shifts[e][day], day)

OnShift(e) == \E day \in {Today - 1, Today} \cap Days :
                  shifts[e][day] # NoShift /\ Covers(shifts[e][day], day)

Unexpired(k) == sessions[k].left > 0

Live(k) == sessions[k] # None /\ sessions[k].active /\ Unexpired(k)

\* Slip: a session of the same device does not count.
HasSessionElsewhere(e, d) ==
    \E k \in Sessions : Live(k) /\ sessions[k].employee = e /\ sessions[k].device # d

\* has_other_active_session takes the device and does not look at it.
HasSession(e, d) == \E k \in Sessions : Live(k) /\ sessions[k].employee = e

\* auto_enroll_first_trusted_device
Enrols(e, d) == mode # "off" /\ d # NoDevice /\ \A x \in Devices : devices[e][x] = "none"

DeviceTrusted(e, d) == d # NoDevice /\ (devices[e][d] = "trusted" \/ Enrols(e, d))

Enforces == mode = "enforce"

\* _evaluate_login_security_policy
LoginAllowed(e, d) == Enforces => OnShift(e) /\ DeviceTrusted(e, d) /\ ~HasSession(e, d)

\* The first device stays enrolled when a later check refuses: the audit's commit keeps it.
EnrolledByRefusal(e, d) ==
    Enforces /\ ~LoginAllowed(e, d) /\ OnShift(e) /\ Enrols(e, d)

Trust(e, d) == devices' = [devices EXCEPT ![e][d] = "trusted"]

\* validate_request_session, for the token of session k.
SessionValid(k) == Live(k)

\* Slip: the device is not looked at again.
ShiftAlone(k) == OnShift(sessions[k].employee)

\* validate_protected_access_policy
AccessAllowed(k) ==
    /\ OnShift(sessions[k].employee)
    /\ sessions[k].device # NoDevice
    /\ devices[sessions[k].employee][sessions[k].device] = "trusted"

\* get_current_user
Valid(k) == Enforces => SessionValid(k) /\ AccessAllowed(k)

\* get_user_from_token: the signed token has not expired and the account is active.
TokenAccepted(k) == sessions[k] # None /\ Unexpired(k) /\ account[sessions[k].employee].active

----------------------------------------------------------------------------
(* Login. *)

Holds(r, pc, e, d, c) ==
    requests' = [requests EXCEPT ![r] = [pc |-> pc, employee |-> e, device |-> d, code |-> c,
                                         enrols |-> Enrols(e, d)]]

\* login_user up to the end of the policy's checks.  Wrong passwords and the limiter that
\* counts them change no row and are left out.
Login(r, e, d) ==
    /\ requests[r].pc = "idle"
    /\ account[e].active
    /\ IF LoginAllowed(e, d) THEN Holds(r, "issue", e, d, None) ELSE UNCHANGED requests
    /\ IF EnrolledByRefusal(e, d) THEN Trust(e, d) ELSE UNCHANGED devices
    /\ UNCHANGED << mode, now, shifts, account, sessions, challenges, sockets, edits >>

\* The device flushed by the request is committed with its next commit; the unique
\* (employee, device) refuses a second row.
Enrolled(q) ==
    /\ q.enrols => devices[q.employee][q.device] = "none"
    /\ IF q.enrols THEN Trust(q.employee, q.device) ELSE UNCHANGED devices

Release(r) == requests' = [requests EXCEPT ![r] = Idle]

NewCode(c, purpose, e, d) ==
    /\ challenges[c] = None /\ \A b \in Challenges : b < c => challenges[b] # None
    /\ challenges' = [challenges EXCEPT ![c] =
           [purpose |-> purpose, employee |-> e, device |-> d, left |-> CodeLength,
            attempts |-> 0, used |-> FALSE]]

\* _create_login_otp_challenge, whether or not the mail could be delivered.
SendCode(r, c) ==
    /\ requests[r].pc = "issue"
    /\ account[requests[r].employee].otp
    /\ NewCode(c, "LOGIN", requests[r].employee, requests[r].device)
    /\ Enrolled(requests[r])
    /\ Release(r)
    /\ UNCHANGED << mode, now, shifts, account, sessions, sockets, edits >>

\* create_user_session and the token with its claims.
NewSession(k, q) ==
    /\ sessions[k] = None /\ \A j \in Sessions : j < k => sessions[j] # None
    /\ sessions' = [sessions EXCEPT ![k] =
           [employee |-> q.employee, device |-> q.device, active |-> TRUE,
            left |-> SessionLength, code |-> q.code]]

\* _issue_login_token
IssueToken(r, k) ==
    /\ \/ requests[r].pc = "issue" /\ ~account[requests[r].employee].otp /\ Enrolled(requests[r])
       \/ requests[r].pc = "used" /\ UNCHANGED devices
    /\ NewSession(k, requests[r])
    /\ Release(r)
    /\ UNCHANGED << mode, now, shifts, account, challenges, sockets, edits >>

\* The process dies or the database refuses: what was not committed is gone.
RequestFails(r) ==
    /\ requests[r].pc # "idle"
    /\ Release(r)
    /\ UNCHANGED << policy, account, sessions, challenges, sockets, edits >>

----------------------------------------------------------------------------
(* One-time codes. *)

Usable(c, purpose) ==
    /\ challenges[c] # None
    /\ challenges[c].purpose = purpose
    /\ ~challenges[c].used
    /\ account[challenges[c].employee].active
    /\ challenges[c].left > 0
    /\ challenges[c].attempts < MaxAttempts

\* A wrong code, for either purpose.  d is the device the login's second step sends.
WrongCode(c, d) ==
    /\ \E purpose \in {"LOGIN", "PASSWORD_RESET"} : Usable(c, purpose)
    /\ challenges[c].purpose = "LOGIN" /\ Enforces => challenges[c].device = d
    /\ challenges' = [challenges EXCEPT ![c].attempts = @ + 1]
    /\ UNCHANGED << policy, account, sessions, requests, sockets, edits >>

\* verify_login_otp up to the end of its second policy evaluation.
VerifyCode(r, c, d) ==
    LET e == challenges[c].employee IN
    /\ requests[r].pc = "idle"
    /\ Usable(c, "LOGIN")
    /\ Enforces => challenges[c].device = d
    /\ IF LoginAllowed(e, d) THEN Holds(r, "verified", e, d, c) ELSE UNCHANGED requests
    /\ IF EnrolledByRefusal(e, d) THEN Trust(e, d) ELSE UNCHANGED devices
    /\ UNCHANGED << mode, now, shifts, account, sessions, challenges, sockets, edits >>

\* Slip: the code stays usable until it expires.
LeaveUsable(c) == challenges' = challenges

\* The attempts of a used code are not read again and are left as they were.
MarkUsed(c) == challenges' = [challenges EXCEPT ![c].used = TRUE]

\* log_audit_event commits used_at before the session exists.
CommitVerified(r) ==
    /\ requests[r].pc = "verified"
    /\ MarkUsed(requests[r].code)
    /\ Enrolled(requests[r])
    /\ requests' = [requests EXCEPT ![r].pc = "used", ![r].enrols = FALSE]
    /\ UNCHANGED << mode, now, shifts, account, sessions, sockets, edits >>

\* request_password_reset with a matching e-mail and national ID; the limiters of the
\* failed tries are login's, under other keys, and left out.
RequestReset(c, e) ==
    /\ account[e].active
    /\ NewCode(c, "PASSWORD_RESET", e, NoDevice)
    /\ UNCHANGED << policy, account, sessions, requests, sockets, edits >>

\* confirm_password_reset up to the hash of the new password.
ReadReset(r, c) ==
    /\ requests[r].pc = "idle"
    /\ Usable(c, "PASSWORD_RESET")
    /\ requests' = [requests EXCEPT ![r] =
           [Idle EXCEPT !.pc = "reset", !.employee = challenges[c].employee, !.code = c]]
    /\ UNCHANGED << policy, account, sessions, challenges, sockets, edits >>

CommitReset(r) ==
    /\ requests[r].pc = "reset"
    /\ MarkUsed(requests[r].code)
    /\ account' = [account EXCEPT ![requests[r].employee].password = @ + 1]
    /\ Release(r)
    /\ UNCHANGED << policy, sessions, sockets, edits >>

----------------------------------------------------------------------------
(* Sessions in use. *)

Ended(k) == [sessions[k] EXCEPT !.active = FALSE]

\* logout_user: get_current_user skips the session policy on this path.
Logout(k) ==
    /\ TokenAccepted(k)
    /\ sessions' = [sessions EXCEPT ![k] = Ended(k)]
    /\ UNCHANGED << policy, account, challenges, requests, sockets, edits >>

\* validate_websocket_security_context
Connect(s, k) ==
    /\ sockets[s] = None
    /\ TokenAccepted(k)
    /\ Valid(k)
    /\ sockets' = [sockets EXCEPT ![s] = k]
    /\ UNCHANGED << policy, account, sessions, challenges, requests, edits >>

\* revalidate_websocket_security, forced when the interval passes without a message.
Revalidate(s) ==
    /\ sockets[s] # None
    /\ ~Valid(sockets[s])
    /\ sockets' = [sockets EXCEPT ![s] = None]
    /\ UNCHANGED << policy, account, sessions, challenges, requests, edits >>

ClientLeaves(s) ==
    /\ sockets[s] # None
    /\ sockets' = [sockets EXCEPT ![s] = None]
    /\ UNCHANGED << policy, account, sessions, challenges, requests, edits >>

----------------------------------------------------------------------------
(* Administration and time. *)

Edit == edits < MaxEdits /\ edits' = edits + 1

RevokeSession(k) ==
    /\ Edit
    /\ sessions[k] # None
    /\ sessions' = [sessions EXCEPT ![k] = Ended(k)]
    /\ UNCHANGED << policy, account, challenges, requests, sockets >>

ApproveDevice(e, d) ==
    /\ Edit
    /\ devices[e][d] # "none"
    /\ Trust(e, d)
    /\ UNCHANGED << mode, now, shifts, account, sessions, challenges, requests, sockets >>

RevokeDevice(e, d) ==
    /\ Edit
    /\ devices[e][d] # "none"
    /\ devices' = [devices EXCEPT ![e][d] = "revoked"]
    /\ UNCHANGED << mode, now, shifts, account, sessions, challenges, requests, sockets >>

SetShift(e, day, row) ==
    /\ shifts' = [shifts EXCEPT ![e][day] = row]
    /\ UNCHANGED << mode, now, account, devices, sessions, challenges, requests, sockets >>

CreateShift(e, day) ==
    /\ Edit
    /\ account[e].active
    /\ shifts[e][day] = NoShift
    /\ \E x \in Shapes : SetShift(e, day, Shift(x, "scheduled"))

\* A new status and new hours; the date is MoveShift's.
UpdateShift(e, day) ==
    /\ Edit
    /\ shifts[e][day] # NoShift
    /\ \E row \in ShiftRows \ {NoShift} : SetShift(e, day, row)

CancelShift(e, day) ==
    /\ Edit
    /\ shifts[e][day] # NoShift
    /\ SetShift(e, day, [shifts[e][day] EXCEPT !.status = "cancelled"])

\* update_shift of work_date to a date without a row.
MoveShift(e, from, to) ==
    /\ Edit
    /\ shifts[e][from] # NoShift
    /\ shifts[e][to] = NoShift
    /\ shifts' = [shifts EXCEPT ![e][to] = shifts[e][from], ![e][from] = NoShift]
    /\ UNCHANGED << mode, now, account, devices, sessions, challenges, requests, sockets >>

\* update_employee_status of app/routers/admin.py.
SetActive(e) ==
    /\ Edit
    /\ account' = [account EXCEPT ![e].active = ~@]
    /\ UNCHANGED << policy, sessions, challenges, requests, sockets >>

\* An instant passes: expires_at comes nearer.
Aged(row) == IF row = None THEN None ELSE [row EXCEPT !.left = Max({@ - 1, 0})]

Tick ==
    /\ now < Horizon
    /\ now' = now + 1
    /\ sessions' = [k \in Sessions |-> Aged(sessions[k])]
    /\ challenges' = [c \in Challenges |-> Aged(challenges[c])]
    /\ UNCHANGED << mode, account, shifts, devices, requests, sockets, edits >>

----------------------------------------------------------------------------

Next ==
    \/ \E e \in Employees : SetActive(e)
    \/ \E r \in Requests, e \in Employees, d \in Devices \cup {NoDevice} : Login(r, e, d)
    \/ \E r \in Requests, c \in Challenges : SendCode(r, c) \/ ReadReset(r, c)
    \/ \E r \in Requests, k \in Sessions : IssueToken(r, k)
    \/ \E r \in Requests : CommitVerified(r) \/ CommitReset(r) \/ RequestFails(r)
    \/ \E c \in Challenges, d \in Devices \cup {NoDevice} :
          WrongCode(c, d) \/ \E r \in Requests : VerifyCode(r, c, d)
    \/ \E c \in Challenges, e \in Employees : RequestReset(c, e)
    \/ \E k \in Sessions : Logout(k) \/ RevokeSession(k)
    \/ \E s \in Sockets, k \in Sessions : Connect(s, k)
    \/ \E s \in Sockets : Revalidate(s) \/ ClientLeaves(s)
    \/ \E e \in Employees, d \in Devices : ApproveDevice(e, d) \/ RevokeDevice(e, d)
    \/ \E e \in Employees, day \in Days :
          CreateShift(e, day) \/ UpdateShift(e, day) \/ CancelShift(e, day)
    \/ \E e \in Employees, from, to \in Days : MoveShift(e, from, to)
    \/ Tick

\* asyncio.wait_for returns after the interval even if the client is silent.
Spec == Init /\ [][Next]_vars /\ \A s \in Sockets : WF_vars(Revalidate(s))

----------------------------------------------------------------------------
(* Properties. *)

\* Every variable holds a value of the kind its table or object may hold.
TypeOK ==
    /\ mode \in Modes /\ now \in 0..Horizon /\ edits \in 0..MaxEdits
    /\ account \in [Employees -> [active : BOOLEAN, otp : BOOLEAN,
                                  password : 0..Cardinality(Challenges)]]
    /\ shifts \in [Employees -> [Days -> ShiftRows]]
    /\ devices \in [Employees -> [Devices -> {"none", "trusted", "revoked"}]]
    /\ sessions \in [Sessions -> SessionRow \cup {None}]
    /\ challenges \in [Challenges -> ChallengeRow \cup {None}]
    /\ requests \in [Requests -> [pc : {"idle", "issue", "verified", "used", "reset"},
                                  employee : Employees \cup {None},
                                  device : Devices \cup {NoDevice},
                                  code : Challenges \cup {None}, enrols : BOOLEAN]]
    /\ sockets \in [Sockets -> Sessions \cup {None}]

\* While the policy is enforced and the requests of an employee come one after the other,
\* the employee never has two live sessions, whichever mixture of passwords, codes,
\* logouts, revocations and expiries led there (has_other_active_session).
OneLiveSession ==
    Enforces => \A e \in Employees :
        Cardinality({k \in Sessions : Live(k) /\ sessions[k].employee = e}) <= 1

\* A one-time code works once: no two sessions were opened with one login code, and a
\* password changed exactly as often as reset codes were used up, although the code is
\* read, marked and acted upon in separate steps that can fail in between.
CodesWorkOnce ==
    /\ \A k, l \in Sessions :
          (k # l /\ sessions[k] # None /\ sessions[l] # None /\ sessions[k].code # None)
              => sessions[k].code # sessions[l].code
    /\ \A e \in Employees :
          account[e].password = Cardinality({c \in Challenges :
              challenges[c] # None /\ challenges[c].purpose = "PASSWORD_RESET"
              /\ challenges[c].employee = e /\ challenges[c].used})

\* The roster's promise: a scheduled shift lets the employee in from its grace before the
\* start to its grace after the end, which is on the next date for a shift past midnight.
InShift(e, day) ==
    LET row == shifts[e][day]
        length == (row.end - row.start) % DayLength
        start == day * DayLength + row.start
    IN  /\ row # NoShift /\ row.status = "scheduled"
        /\ start - row.before <= now
        /\ now <= start + (IF length = 0 THEN DayLength ELSE length) + row.after

\* The shift gate and the roster agree on the dates the gate looks at: nobody is let in
\* outside a shift and its graces, and on the shift's own date and the date after nobody is
\* kept out, also when the shift passes midnight (is_shift_allowed reads the rows of today
\* and yesterday).  Of a grace that begins on the date before its shift it says nothing: the
\* gate does not grant it.
GateFollowsRoster ==
    \A e \in Employees :
        /\ OnShift(e) => \E day \in Days : InShift(e, day)
        /\ \A day \in Days : InShift(e, day) /\ Today \in {day, day + 1} => OnShift(e)

\* A websocket whose session was revoked or expired, whose device was revoked or whose
\* employee's shift ended is closed, unless the admission is restored first.
Entitled(k) ==
    LET row == sessions[k] IN
    /\ row.active /\ row.left > 0
    /\ OnShift(row.employee)
    /\ \E d \in Devices : row.device = d /\ devices[row.employee][d] = "trusted"

SocketsFollowPolicy ==
    \A s \in Sockets, k \in Sessions :
        (Enforces /\ sockets[s] = k /\ ~Entitled(k)) ~> (sockets[s] # k \/ Entitled(k))
=============================================================================
