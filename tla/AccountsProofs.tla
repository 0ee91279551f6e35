---------------------------- MODULE AccountsProofs ----------------------------
(***************************************************************************)
(* Theorems about Accounts for any number of employees, devices, sessions, *)
(* codes and requests: that a one-time code works once, as long as no two  *)
(* requests hold it at once; that an employee has one live session, as     *)
(* long as no two requests are about to open one for the employee; and     *)
(* that the shift gate reads the roster right.                             *)
(***************************************************************************)
EXTENDS Accounts, FiniteSetTheorems, TLAPS

\* No two requests have read one code and not yet acted upon it.
CodesHeldApart ==
    \A q, r \in Requests :
        requests[q].code # None /\ requests[q].code = requests[r].code => q = r

\* The request has passed the policy and will open a session unless it fails; where a
\* code is mailed first, it is the request with the right code that will.
Opens(q) ==
    \/ q.pc \in {"verified", "used"}
    \/ q.pc = "issue" /\ ~account[q.employee].otp

\* No two requests are about to open a session for one employee.
LoginsApart ==
    \A q, r \in Requests :
        /\ Opens(requests[q]) /\ Opens(requests[r])
        /\ requests[q].employee = requests[r].employee
        => q = r

-----------------------------------------------------------------------------
(* Rows, requests and codes. *)

RequestRow == [pc : {"idle", "issue", "verified", "used", "reset"},
               employee : Employees \cup {None}, device : Devices \cup {NoDevice},
               code : Challenges \cup {None}, enrols : BOOLEAN]

Typed ==
    /\ account \in [Employees -> [active : BOOLEAN, otp : BOOLEAN, password : Nat]]
    /\ sessions \in [Sessions -> SessionRow \cup {None}]
    /\ challenges \in [Challenges -> ChallengeRow \cup {None}]
    /\ requests \in [Requests -> RequestRow]

\* The request holds a code that was sent to its employee.
Holding(q, purpose) ==
    /\ q.code \in Challenges
    /\ challenges[q.code] # None
    /\ challenges[q.code].purpose = purpose
    /\ challenges[q.code].employee = q.employee

\* Before its commit a request's code is unused; after it no session has the code yet.
RequestGood(q) ==
    /\ q.pc # "idle" => q.employee \in Employees
    /\ q.pc = "issue" => q.code = None
    /\ q.pc = "verified" => Holding(q, "LOGIN") /\ ~challenges[q.code].used
    /\ q.pc = "reset" => Holding(q, "PASSWORD_RESET") /\ ~challenges[q.code].used
    /\ q.pc = "used" => /\ Holding(q, "LOGIN") /\ challenges[q.code].used
                        /\ \A k \in Sessions : sessions[k] # None => sessions[k].code # q.code

\* A session's code is used up.
SessionGood(k) ==
    sessions[k] # None /\ sessions[k].code # None =>
        challenges[sessions[k].code] # None /\ challenges[sessions[k].code].used

\* No two sessions have one code.
CodesApart ==
    \A k, l \in Sessions :
        k # l /\ sessions[k] # None /\ sessions[l] # None /\ sessions[k].code # None
            => sessions[k].code # sessions[l].code

UsedResets(e) ==
    {c \in Challenges : challenges[c] # None /\ challenges[c].purpose = "PASSWORD_RESET"
                        /\ challenges[c].employee = e /\ challenges[c].used}

ResetsCounted(e) ==
    IsFiniteSet(UsedResets(e)) /\ account[e].password = Cardinality(UsedResets(e))

CodesInv ==
    /\ Typed
    /\ \A r \in Requests : RequestGood(requests[r])
    /\ \A k \in Sessions : SessionGood(k)
    /\ CodesApart
    /\ \A e \in Employees : ResetsCounted(e)

LEMMA InitCodes ==
    ASSUME Init PROVE CodesInv
<1>1. Typed
  <2>1. account \in [Employees -> [active : BOOLEAN, otp : BOOLEAN, password : Nat]]
    <3>1. \A x \in [active : {TRUE}, otp : BOOLEAN, password : {0}] :
              x \in [active : BOOLEAN, otp : BOOLEAN, password : Nat]
      <4>. SUFFICES ASSUME NEW x \in [active : {TRUE}, otp : BOOLEAN, password : {0}]
                    PROVE  x \in [active : BOOLEAN, otp : BOOLEAN, password : Nat]
        OBVIOUS
      <4>1. x = [active |-> x.active, otp |-> x.otp, password |-> x.password]
        BY Zenon
      <4>2. x.active = TRUE
        BY Zenon
      <4>3. x.otp \in BOOLEAN
        BY Zenon
      <4>4. x.password \in {0}
        OBVIOUS
      <4>5. x.active \in BOOLEAN
        BY <4>2, Zenon
      <4>6. x.password \in Nat
        BY <4>4
      <4>. QED  BY <4>1, <4>3, <4>5, <4>6, Zenon
    <3>2. account \in [Employees -> [active : {TRUE}, otp : BOOLEAN, password : {0}]]
      BY DEF Init
    <3>. QED  BY <3>1, <3>2
  <2>2. Idle \in RequestRow
    BY DEF Idle, RequestRow
  <2>. QED  BY <2>1, <2>2 DEF Init, Typed
<1>2. \A r \in Requests : RequestGood(requests[r])
  BY DEF Init, RequestGood, Idle
<1>3. \A k \in Sessions : SessionGood(k)
  BY DEF Init, SessionGood
<1>4. CodesApart
  BY DEF Init, CodesApart
<1>5. ASSUME NEW e \in Employees PROVE ResetsCounted(e)
  <2>1. UsedResets(e) = {}
    BY DEF Init, UsedResets
  <2>. QED  BY <2>1, FS_EmptySet DEF Init, ResetsCounted
<1>. QED  BY <1>1, <1>2, <1>3, <1>4, <1>5 DEF CodesInv

LEMMA MaxWithZero == \A n \in Int : Max({n, 0}) = IF n >= 0 THEN n ELSE 0
<1>. SUFFICES ASSUME NEW n \in Int PROVE Max({n, 0}) = IF n >= 0 THEN n ELSE 0
  OBVIOUS
<1>1. CASE n >= 0
  BY <1>1 DEF Max
<1>2. CASE ~(n >= 0)
  BY <1>2 DEF Max
<1>. QED  BY <1>1, <1>2

\* A row that ages keeps everything but the time it has left.
LEMMA Ages ==
    ASSUME NEW row
    PROVE  /\ row \in SessionRow => /\ Aged(row) \in SessionRow /\ Aged(row) # None
                                    /\ Aged(row).employee = row.employee
                                    /\ Aged(row).device = row.device
                                    /\ Aged(row).active = row.active
                                    /\ Aged(row).code = row.code
                                    /\ Aged(row).left > 0 => row.left > 0
           /\ row \in ChallengeRow => /\ Aged(row) \in ChallengeRow /\ Aged(row) # None
                                      /\ Aged(row).purpose = row.purpose
                                      /\ Aged(row).employee = row.employee
                                      /\ Aged(row).used = row.used
           /\ Aged(None) = None
<1>0. SessionLength \in Nat /\ CodeLength \in Nat /\ None \notin SessionRow /\ None \notin ChallengeRow
  BY AccountsAssumption, RowsAssumption
<1>1. ASSUME row \in SessionRow
      PROVE  /\ Aged(row) = [row EXCEPT !.left = Max({@ - 1, 0})]
             /\ Max({row.left - 1, 0}) \in 0..SessionLength
             /\ Max({row.left - 1, 0}) > 0 => row.left > 0
  <2>1. row.left \in 0..SessionLength /\ row # None
    BY <1>0, <1>1 DEF SessionRow
  <2>2. Max({row.left - 1, 0}) = IF row.left - 1 >= 0 THEN row.left - 1 ELSE 0
    BY <1>0, <2>1, MaxWithZero
  <2>. QED  BY <1>0, <2>1, <2>2 DEF Aged
<1>2. ASSUME row \in ChallengeRow
      PROVE  /\ Aged(row) = [row EXCEPT !.left = Max({@ - 1, 0})]
             /\ Max({row.left - 1, 0}) \in 0..CodeLength
  <2>1. row.left \in 0..CodeLength /\ row # None
    BY <1>0, <1>2 DEF ChallengeRow
  <2>2. Max({row.left - 1, 0}) = IF row.left - 1 >= 0 THEN row.left - 1 ELSE 0
    BY <1>0, <2>1, MaxWithZero
  <2>. QED  BY <1>0, <2>1, <2>2 DEF Aged
<1>3. row \in SessionRow => /\ Aged(row) \in SessionRow /\ Aged(row) # None
                            /\ Aged(row).employee = row.employee
                            /\ Aged(row).device = row.device
                            /\ Aged(row).active = row.active
                            /\ Aged(row).code = row.code
                            /\ Aged(row).left > 0 => row.left > 0
  BY <1>0, <1>1 DEF SessionRow
<1>4. row \in ChallengeRow => /\ Aged(row) \in ChallengeRow /\ Aged(row) # None
                              /\ Aged(row).purpose = row.purpose
                              /\ Aged(row).employee = row.employee
                              /\ Aged(row).used = row.used
  BY <1>0, <1>2 DEF ChallengeRow
<1>5. Aged(None) = None
  BY DEF Aged
<1>. QED  BY <1>3, <1>4, <1>5

\* No code is used up: codes age, count a wrong attempt, or are sent.
SameCodes ==
    \A c \in Challenges :
        /\ challenges[c] = None /\ challenges'[c] # None => ~challenges'[c].used
        /\ challenges[c] # None =>
              /\ challenges'[c] # None
              /\ challenges'[c].purpose = challenges[c].purpose
              /\ challenges'[c].employee = challenges[c].employee
              /\ challenges'[c].used = challenges[c].used

SameSessionCodes ==
    \A k \in Sessions :
        /\ sessions[k] = None => sessions'[k] = None
        /\ sessions[k] # None => sessions'[k] # None /\ sessions'[k].code = sessions[k].code

SamePasswords == \A e \in Employees : account'[e].password = account[e].password

LEMMA NothingSpent ==
    ASSUME CodesInv, Typed', SameCodes, SameSessionCodes, SamePasswords,
           \A r \in Requests : RequestGood(requests[r])'
    PROVE  CodesInv'
<1>2. ASSUME NEW k \in Sessions PROVE SessionGood(k)'
  <2>1. sessions[k] # None /\ sessions[k].code # None => sessions[k].code \in Challenges
    BY DEF CodesInv, Typed, SessionRow
  <2>. QED  BY <2>1 DEF CodesInv, SessionGood, SameCodes, SameSessionCodes
<1>3. CodesApart'
  BY DEF CodesInv, CodesApart, SameSessionCodes
<1>4. ASSUME NEW e \in Employees PROVE ResetsCounted(e)'
  <2>1. UsedResets(e)' = UsedResets(e)
    BY DEF UsedResets, SameCodes
  <2>. QED  BY <2>1 DEF CodesInv, ResetsCounted, SamePasswords
<1>. QED  BY <1>2, <1>3, <1>4 DEF CodesInv

LEMMA RequestsKeep ==
    ASSUME CodesInv, Typed', SameCodes, SameSessionCodes, NEW r \in Requests,
           requests'[r].pc = "idle" \/ requests'[r] = requests[r]
    PROVE  RequestGood(requests[r])'
<1>1. CASE requests'[r].pc = "idle"
  BY <1>1 DEF RequestGood
<1>2. CASE requests'[r] = requests[r]
  <2>1. RequestGood(requests[r])
    BY DEF CodesInv
  <2>2. Holding(requests[r], "LOGIN") => Holding(requests[r], "LOGIN")'
    BY <1>2 DEF Holding, SameCodes
  <2>3. Holding(requests[r], "PASSWORD_RESET") => Holding(requests[r], "PASSWORD_RESET")'
    BY <1>2 DEF Holding, SameCodes
  <2>4. requests[r].code \in Challenges /\ challenges[requests[r].code] # None
        => challenges'[requests[r].code].used = challenges[requests[r].code].used
    BY DEF SameCodes
  <2>5. \A k \in Sessions : sessions'[k] # None => sessions[k] # None /\ sessions'[k].code = sessions[k].code
    BY DEF SameSessionCodes
  <2>. QED  BY <1>2, <2>1, <2>2, <2>3, <2>4, <2>5 DEF RequestGood, Holding
<1>. QED  BY <1>1, <1>2

\* A request that has just begun and holds nothing, or an unused code of its employee.
Begins(q) ==
    /\ q \in RequestRow /\ q.employee \in Employees
    /\ \/ q.pc = "issue" /\ q.code = None
       \/ q.pc = "verified" /\ Holding(q, "LOGIN") /\ ~challenges[q.code].used
       \/ q.pc = "reset" /\ Holding(q, "PASSWORD_RESET") /\ ~challenges[q.code].used

LEMMA RequestBegins ==
    ASSUME CodesInv, NEW r \in Requests, NEW q, Begins(q),
           requests' = [requests EXCEPT ![r] = q],
           UNCHANGED << account, sessions, challenges >>
    PROVE  CodesInv'
<1>1. Typed'
  BY DEF CodesInv, Typed, Begins
<1>2. SameCodes /\ SameSessionCodes /\ SamePasswords
  BY DEF SameCodes, SameSessionCodes, SamePasswords
<1>3. ASSUME NEW p \in Requests PROVE RequestGood(requests[p])'
  <2>1. CASE p = r
    <3>1. requests'[p] = q
      BY <2>1 DEF CodesInv, Typed
    <3>. QED  BY <3>1 DEF Begins, RequestGood, Holding
  <2>2. CASE p # r
    <3>1. requests'[p] = requests[p]
      BY <2>2 DEF CodesInv, Typed
    <3>. QED  BY <1>1, <1>2, <3>1, RequestsKeep
  <2>. QED  BY <2>1, <2>2
<1>. QED  BY <1>1, <1>2, <1>3, NothingSpent

LEMMA LoginCodes ==
    ASSUME CodesInv, NEW r \in Requests, NEW e \in Employees, NEW d \in Devices \cup {NoDevice},
           Login(r, e, d)
    PROVE  CodesInv'
<1>1. CASE UNCHANGED requests
  <2>1. Typed' /\ SameCodes /\ SameSessionCodes /\ SamePasswords
    BY <1>1 DEF Login, CodesInv, Typed, SameCodes, SameSessionCodes, SamePasswords
  <2>. QED  BY <1>1, <2>1, NothingSpent, RequestsKeep
<1>2. CASE Holds(r, "issue", e, d, None)
  <2> DEFINE q == [pc |-> "issue", employee |-> e, device |-> d, code |-> None,
                   enrols |-> Enrols(e, d)]
  <2>1. Enrols(e, d) \in BOOLEAN
    BY DEF Enrols
  <2>2. Begins(q)
    BY <2>1 DEF Begins, RequestRow
  <2>3. requests' = [requests EXCEPT ![r] = q]
    BY <1>2 DEF Holds
  <2>. QED  BY <2>2, <2>3, RequestBegins DEF Login
<1>. QED  BY <1>1, <1>2 DEF Login

LEMMA VerifyCodes ==
    ASSUME CodesInv, NEW r \in Requests, NEW c \in Challenges, NEW d \in Devices \cup {NoDevice},
           VerifyCode(r, c, d)
    PROVE  CodesInv'
<1> DEFINE e == challenges[c].employee
<1>1. CASE UNCHANGED requests
  <2>1. Typed' /\ SameCodes /\ SameSessionCodes /\ SamePasswords
    BY <1>1 DEF VerifyCode, CodesInv, Typed, SameCodes, SameSessionCodes, SamePasswords
  <2>. QED  BY <1>1, <2>1, NothingSpent, RequestsKeep
<1>2. CASE Holds(r, "verified", e, d, c)
  <2> DEFINE q == [pc |-> "verified", employee |-> e, device |-> d, code |-> c,
                   enrols |-> Enrols(e, d)]
  <2>1. Enrols(e, d) \in BOOLEAN
    BY DEF Enrols
  <2>2. Usable(c, "LOGIN") /\ e \in Employees
    BY DEF VerifyCode, Usable, CodesInv, Typed, ChallengeRow
  <2>3. Begins(q)
    BY <2>1, <2>2 DEF Begins, RequestRow, Usable, Holding
  <2>4. requests' = [requests EXCEPT ![r] = q]
    BY <1>2 DEF Holds
  <2>. QED  BY <2>3, <2>4, RequestBegins DEF VerifyCode
<1>. QED  BY <1>1, <1>2 DEF VerifyCode

LEMMA ReadResetCodes ==
    ASSUME CodesInv, NEW r \in Requests, NEW c \in Challenges, ReadReset(r, c)
    PROVE  CodesInv'
<1> DEFINE q == [Idle EXCEPT !.pc = "reset", !.employee = challenges[c].employee, !.code = c]
<1>1. challenges[c].employee \in Employees /\ Usable(c, "PASSWORD_RESET")
  BY DEF ReadReset, Usable, CodesInv, Typed, ChallengeRow
<1>2. Begins(q)
  BY <1>1 DEF Begins, RequestRow, Usable, Holding, Idle
<1>3. requests' = [requests EXCEPT ![r] = q]
  BY DEF ReadReset
<1>. QED  BY <1>2, <1>3, RequestBegins DEF ReadReset, policy

LEMMA NewCodeCodes ==
    ASSUME CodesInv, NEW c \in Challenges, NEW purpose \in {"LOGIN", "PASSWORD_RESET"},
           NEW e \in Employees, NEW d \in Devices \cup {NoDevice}, NewCode(c, purpose, e, d),
           UNCHANGED << account, sessions >>,
           requests' = requests \/ \E r \in Requests : Release(r)
    PROVE  CodesInv'
<1> DEFINE row == [purpose |-> purpose, employee |-> e, device |-> d, left |-> CodeLength,
                   attempts |-> 0, used |-> FALSE]
<1>1. challenges[c] = None /\ challenges' = [challenges EXCEPT ![c] = row]
  BY DEF NewCode
<1>2. row \in ChallengeRow
  BY AccountsAssumption DEF ChallengeRow
<1>3. \A b \in Challenges : challenges'[b] = IF b = c THEN row ELSE challenges[b]
  BY <1>1 DEF CodesInv, Typed
<1>4. \A r \in Requests : requests'[r].pc = "idle" \/ requests'[r] = requests[r]
  BY DEF Release, Idle, CodesInv, Typed
<1>5. Idle \in RequestRow
  BY DEF Idle, RequestRow
<1>6. Typed'
  BY <1>1, <1>2, <1>5 DEF CodesInv, Typed, Release
<1>7. ~row.used
  OBVIOUS
<1> HIDE DEF row
<1>8. SameCodes
  BY <1>1, <1>3, <1>7 DEF SameCodes
<1>9. SameSessionCodes /\ SamePasswords
  BY DEF SameSessionCodes, SamePasswords
<1>. QED  BY <1>4, <1>6, <1>8, <1>9, NothingSpent, RequestsKeep

LEMMA WrongCodeCodes ==
    ASSUME CodesInv, NEW c \in Challenges, NEW d \in Devices \cup {NoDevice}, WrongCode(c, d)
    PROVE  CodesInv'
<1> DEFINE row == [challenges[c] EXCEPT !.attempts = @ + 1]
<1>1. challenges[c] \in ChallengeRow /\ challenges[c].attempts < MaxAttempts
  BY DEF WrongCode, Usable, CodesInv, Typed
<1>2. row \in ChallengeRow
  BY <1>1, AccountsAssumption DEF ChallengeRow
<1>3. row.purpose = challenges[c].purpose /\ row.employee = challenges[c].employee
      /\ row.used = challenges[c].used /\ row # None
  BY <1>1, <1>2, RowsAssumption DEF ChallengeRow
<1>4. challenges' = [challenges EXCEPT ![c] = row]
  BY DEF WrongCode
<1>5. \A b \in Challenges : challenges'[b] = IF b = c THEN row ELSE challenges[b]
  BY <1>4 DEF CodesInv, Typed
<1>6. UNCHANGED << account, sessions, requests >>
  BY DEF WrongCode
<1>7. Typed'
  BY <1>2, <1>4, <1>6 DEF CodesInv, Typed
<1> HIDE DEF row
<1>8. SameCodes
  BY <1>3, <1>5, <1>1, RowsAssumption DEF SameCodes
<1>9. SameSessionCodes /\ SamePasswords
  BY <1>6 DEF SameSessionCodes, SamePasswords
<1>. QED  BY <1>6, <1>7, <1>8, <1>9, NothingSpent, RequestsKeep

LEMMA TickCodes ==
    ASSUME CodesInv, Tick PROVE CodesInv'
<1>1. /\ \A k \in Sessions : sessions[k] \in SessionRow \cup {None}
                             /\ sessions'[k] = Aged(sessions[k])
      /\ \A c \in Challenges : challenges[c] \in ChallengeRow \cup {None}
                               /\ challenges'[c] = Aged(challenges[c])
      /\ UNCHANGED << account, requests >>
  BY DEF Tick, CodesInv, Typed
<1>2. Typed'
  <2>1. \A k \in Sessions : Aged(sessions[k]) \in SessionRow \cup {None}
    BY <1>1, Ages
  <2>2. \A c \in Challenges : Aged(challenges[c]) \in ChallengeRow \cup {None}
    BY <1>1, Ages
  <2>. QED  BY <2>1, <2>2 DEF Tick, CodesInv, Typed
<1>3. SameCodes /\ SameSessionCodes /\ SamePasswords
  BY <1>1, Ages DEF SameCodes, SameSessionCodes, SamePasswords
<1>. QED  BY <1>1, <1>2, <1>3, NothingSpent, RequestsKeep

LEMMA EndedCodes ==
    ASSUME CodesInv, NEW k \in Sessions, sessions[k] # None,
           sessions' = [sessions EXCEPT ![k] = Ended(k)],
           UNCHANGED << account, challenges, requests >>
    PROVE  CodesInv'
<1>1. sessions[k] \in SessionRow
  BY DEF CodesInv, Typed
<1>2. Ended(k) \in SessionRow /\ Ended(k).code = sessions[k].code /\ Ended(k) # None
  BY <1>1, RowsAssumption DEF Ended, SessionRow
<1>3. Typed'
  BY <1>2 DEF CodesInv, Typed
<1>4. \A l \in Sessions : sessions'[l] = IF l = k THEN Ended(k) ELSE sessions[l]
  BY DEF CodesInv, Typed
<1>5. SameCodes /\ SameSessionCodes /\ SamePasswords
  BY <1>2, <1>4 DEF SameCodes, SameSessionCodes, SamePasswords
<1>. QED  BY <1>3, <1>5, NothingSpent, RequestsKeep

LEMMA SetActiveCodes ==
    ASSUME CodesInv, NEW e \in Employees, SetActive(e) PROVE CodesInv'
<1>1. /\ account \in [Employees -> [active : BOOLEAN, otp : BOOLEAN, password : Nat]]
      /\ account' = [account EXCEPT ![e].active = ~account[e].active]
  BY DEF SetActive, CodesInv, Typed
<1>2. UNCHANGED << sessions, challenges, requests >>
  BY DEF SetActive
<1>3. account' \in [Employees -> [active : BOOLEAN, otp : BOOLEAN, password : Nat]]
  BY <1>1
<1>4. \A x \in Employees : account'[x].password = account[x].password
  BY <1>1
<1>5. Typed'
  BY <1>2, <1>3 DEF CodesInv, Typed
<1>6. SameCodes /\ SameSessionCodes /\ SamePasswords
  BY <1>2, <1>4 DEF SameCodes, SameSessionCodes, SamePasswords
<1>. QED  BY <1>2, <1>5, <1>6, NothingSpent, RequestsKeep

-----------------------------------------------------------------------------
(* A code is used up. *)

\* Marking an unused code counts it once, for its employee and if it is a reset code.
LEMMA OneMoreUsed ==
    ASSUME CodesInv, NEW c \in Challenges, challenges[c] # None, ~challenges[c].used, MarkUsed(c)
    PROVE  /\ challenges' \in [Challenges -> ChallengeRow \cup {None}]
           /\ \A b \in Challenges : b # c => challenges'[b] = challenges[b]
           /\ challenges'[c] # None /\ challenges'[c].used
           /\ challenges'[c].purpose = challenges[c].purpose
           /\ challenges'[c].employee = challenges[c].employee
           /\ \A e \in Employees :
                 IF challenges[c].purpose = "PASSWORD_RESET" /\ challenges[c].employee = e
                   THEN /\ IsFiniteSet(UsedResets(e)')
                        /\ Cardinality(UsedResets(e)') = Cardinality(UsedResets(e)) + 1
                   ELSE UsedResets(e)' = UsedResets(e)
<1> DEFINE row == [challenges[c] EXCEPT !.used = TRUE]
<1>1. challenges[c] \in ChallengeRow
  BY DEF CodesInv, Typed
<1>2. row \in ChallengeRow /\ row.used /\ row.purpose = challenges[c].purpose
      /\ row.employee = challenges[c].employee /\ row # None
  BY <1>1, RowsAssumption DEF ChallengeRow
<1>3. challenges' = [challenges EXCEPT ![c] = row]
  BY DEF MarkUsed
<1> HIDE DEF row
<1>4. challenges' \in [Challenges -> ChallengeRow \cup {None}]
  BY <1>2, <1>3 DEF CodesInv, Typed
<1>5. \A b \in Challenges : challenges'[b] = IF b = c THEN row ELSE challenges[b]
  BY <1>3 DEF CodesInv, Typed
<1>6. ASSUME NEW e \in Employees
      PROVE  IF challenges[c].purpose = "PASSWORD_RESET" /\ challenges[c].employee = e
               THEN /\ IsFiniteSet(UsedResets(e)')
                    /\ Cardinality(UsedResets(e)') = Cardinality(UsedResets(e)) + 1
               ELSE UsedResets(e)' = UsedResets(e)
  <2>1. c \notin UsedResets(e)
    BY DEF UsedResets
  <2>2. CASE challenges[c].purpose = "PASSWORD_RESET" /\ challenges[c].employee = e
    <3>1. UsedResets(e)' = UsedResets(e) \cup {c}
      BY <1>2, <1>5, <2>2 DEF UsedResets
    <3>2. IsFiniteSet(UsedResets(e))
      BY DEF CodesInv, ResetsCounted
    <3>. QED  BY <2>1, <2>2, <3>1, <3>2, FS_AddElement
  <2>3. CASE ~(challenges[c].purpose = "PASSWORD_RESET" /\ challenges[c].employee = e)
    <3>1. UsedResets(e)' = UsedResets(e)
      BY <1>2, <1>5, <2>3 DEF UsedResets
    <3>. QED  BY <2>3, <3>1
  <2>. QED  BY <2>2, <2>3
<1>. QED  BY <1>2, <1>4, <1>5, <1>6

\* The codes other requests and sessions have are not the one that is marked.
LEMMA OthersGood ==
    ASSUME CodesInv, NEW c \in Challenges, challenges[c] # None, ~challenges[c].used, MarkUsed(c),
           UNCHANGED sessions
    PROVE  /\ \A k \in Sessions : SessionGood(k)'
           /\ \A k \in Sessions : sessions[k] # None => sessions[k].code # c
           /\ CodesApart'
           /\ \A q : RequestGood(q) /\ (q.pc \in {"verified", "reset"} => q.code # c) => RequestGood(q)'
<1>1. /\ \A b \in Challenges : b # c => challenges'[b] = challenges[b]
      /\ challenges'[c] # None /\ challenges'[c].used
      /\ challenges'[c].purpose = challenges[c].purpose
      /\ challenges'[c].employee = challenges[c].employee
  BY OneMoreUsed
<1>2. ASSUME NEW k \in Sessions
      PROVE  SessionGood(k)' /\ (sessions[k] # None => sessions[k].code # c)
  <2>1. sessions[k] # None => sessions[k].code \in Challenges \cup {None}
    BY DEF CodesInv, Typed, SessionRow
  <2>2. SessionGood(k)
    BY DEF CodesInv
  <2>. QED  BY <1>1, <2>1, <2>2, RowsAssumption DEF SessionGood
<1>3. CodesApart'
  BY DEF CodesInv, CodesApart
<1>4. ASSUME NEW q, RequestGood(q), q.pc \in {"verified", "reset"} => q.code # c
      PROVE  RequestGood(q)'
  BY <1>1, <1>4 DEF RequestGood, Holding
<1>. QED  BY <1>2, <1>3, <1>4

LEMMA CommitVerifiedCodes ==
    ASSUME CodesInv, CodesHeldApart, NEW r \in Requests, CommitVerified(r) PROVE CodesInv'
<1> DEFINE c == requests[r].code
           new == [requests[r] EXCEPT !.pc = "used", !.enrols = FALSE]
<1>1. /\ requests[r] \in RequestRow /\ requests[r].pc = "verified"
      /\ requests[r].employee \in Employees
      /\ c \in Challenges /\ challenges[c] # None /\ ~challenges[c].used
      /\ challenges[c].purpose = "LOGIN" /\ challenges[c].employee = requests[r].employee
  BY DEF CommitVerified, CodesInv, Typed, RequestGood, Holding
<1>2. MarkUsed(c) /\ UNCHANGED << account, sessions >>
      /\ requests' = [requests EXCEPT ![r] = new]
  BY DEF CommitVerified
<1>3. /\ new \in RequestRow /\ new.pc = "used" /\ new.employee = requests[r].employee
      /\ new.code = c
  BY <1>1 DEF RequestRow
<1> HIDE DEF new
<1>4. \A p \in Requests : requests'[p] = IF p = r THEN new ELSE requests[p]
  BY <1>2 DEF CodesInv, Typed
<1>5. Typed'
  BY <1>1, <1>2, <1>3, OneMoreUsed DEF CodesInv, Typed
<1>6. (\A k \in Sessions : SessionGood(k)') /\ CodesApart'
  BY <1>1, <1>2, OthersGood
<1>7. ASSUME NEW p \in Requests PROVE RequestGood(requests[p])'
  <2>1. CASE p = r
    <3>1. challenges'[c] # None /\ challenges'[c].used /\ challenges'[c].purpose = "LOGIN"
          /\ challenges'[c].employee = requests[r].employee
      BY <1>1, <1>2, OneMoreUsed
    <3>2. \A k \in Sessions : sessions'[k] # None => sessions'[k].code # c
      BY <1>1, <1>2, OthersGood
    <3>3. requests'[p] = new
      BY <1>4, <2>1
    <3>. QED  BY <1>1, <1>3, <3>1, <3>2, <3>3 DEF RequestGood, Holding
  <2>2. CASE p # r
    <3>1. RequestGood(requests[p])
      BY DEF CodesInv
    <3>2. requests[p].pc \in {"verified", "reset"} => requests[p].code # c
      BY <1>1, <2>2, RowsAssumption DEF CodesHeldApart
    <3>3. \A q : RequestGood(q) /\ (q.pc \in {"verified", "reset"} => q.code # c) => RequestGood(q)'
      BY <1>1, <1>2, OthersGood
    <3>4. requests'[p] = requests[p]
      BY <1>4, <2>2
    <3>. QED  BY <3>1, <3>2, <3>3, <3>4
  <2>. QED  BY <2>1, <2>2
<1>8. ASSUME NEW e \in Employees PROVE ResetsCounted(e)'
  <2>1. UsedResets(e)' = UsedResets(e)
    BY <1>1, <1>2, OneMoreUsed
  <2>. QED  BY <1>2, <2>1 DEF CodesInv, ResetsCounted
<1>. QED  BY <1>5, <1>6, <1>7, <1>8 DEF CodesInv

LEMMA CommitResetCodes ==
    ASSUME CodesInv, CodesHeldApart, NEW r \in Requests, CommitReset(r) PROVE CodesInv'
<1> DEFINE c == requests[r].code
           x == requests[r].employee
<1>1. /\ requests[r].pc = "reset" /\ x \in Employees
      /\ c \in Challenges /\ challenges[c] # None /\ ~challenges[c].used
      /\ challenges[c].purpose = "PASSWORD_RESET" /\ challenges[c].employee = x
  BY DEF CommitReset, CodesInv, Typed, RequestGood, Holding
<1>2. /\ MarkUsed(c) /\ UNCHANGED sessions
      /\ requests' = [requests EXCEPT ![r] = Idle]
      /\ account' = [account EXCEPT ![x].password = account[x].password + 1]
  BY DEF CommitReset, Release
<1>3. \A p \in Requests : requests'[p] = IF p = r THEN Idle ELSE requests[p]
  BY <1>2 DEF CodesInv, Typed
<1>4. Idle \in RequestRow /\ Idle.pc = "idle"
  BY DEF Idle, RequestRow
<1>5. /\ account' \in [Employees -> [active : BOOLEAN, otp : BOOLEAN, password : Nat]]
      /\ \A e \in Employees : account'[e].password =
            IF e = x THEN account[e].password + 1 ELSE account[e].password
  <2>1. account \in [Employees -> [active : BOOLEAN, otp : BOOLEAN, password : Nat]]
    BY DEF CodesInv, Typed
  <2>. QED  BY <1>1, <1>2, <2>1
<1>6. Typed'
  BY <1>1, <1>2, <1>4, <1>5, OneMoreUsed DEF CodesInv, Typed
<1>7. (\A k \in Sessions : SessionGood(k)') /\ CodesApart'
  BY <1>1, <1>2, OthersGood
<1>8. ASSUME NEW p \in Requests PROVE RequestGood(requests[p])'
  <2>1. CASE p = r
    BY <1>3, <1>4, <2>1 DEF RequestGood
  <2>2. CASE p # r
    <3>1. RequestGood(requests[p])
      BY DEF CodesInv
    <3>2. requests[p].pc \in {"verified", "reset"} => requests[p].code # c
      BY <1>1, <2>2, RowsAssumption DEF CodesHeldApart
    <3>3. \A q : RequestGood(q) /\ (q.pc \in {"verified", "reset"} => q.code # c) => RequestGood(q)'
      BY <1>1, <1>2, OthersGood
    <3>4. requests'[p] = requests[p]
      BY <1>3, <2>2
    <3>. QED  BY <3>1, <3>2, <3>3, <3>4
  <2>. QED  BY <2>1, <2>2
<1>9. ASSUME NEW e \in Employees PROVE ResetsCounted(e)'
  <2>1. ResetsCounted(e)
    BY DEF CodesInv
  <2>2. CASE e = x
    <3>1. IsFiniteSet(UsedResets(e)') /\ Cardinality(UsedResets(e)') = Cardinality(UsedResets(e)) + 1
      BY <1>1, <1>2, <2>2, OneMoreUsed
    <3>. QED  BY <1>5, <2>1, <2>2, <3>1 DEF ResetsCounted
  <2>3. CASE e # x
    <3>1. UsedResets(e)' = UsedResets(e)
      BY <1>1, <1>2, <2>3, OneMoreUsed
    <3>. QED  BY <1>5, <2>1, <2>3, <3>1 DEF ResetsCounted
  <2>. QED  BY <2>2, <2>3
<1>. QED  BY <1>6, <1>7, <1>8, <1>9 DEF CodesInv

-----------------------------------------------------------------------------
(* A session is opened. *)

LEMMA IssueTokenCodes ==
    ASSUME CodesInv, CodesHeldApart, NEW r \in Requests, NEW k \in Sessions, IssueToken(r, k)
    PROVE  CodesInv'
<1> DEFINE q == requests[r]
           row == [employee |-> q.employee, device |-> q.device, active |-> TRUE,
                   left |-> SessionLength, code |-> q.code]
<1>1. /\ q \in RequestRow /\ q.pc \in {"issue", "used"} /\ RequestGood(q)
      /\ q.employee \in Employees /\ q.device \in Devices \cup {NoDevice}
      /\ q.code \in Challenges \cup {None}
  BY DEF IssueToken, CodesInv, Typed, RequestGood, RequestRow
<1>2. row \in SessionRow /\ row.code = q.code /\ row # None
  <2>1. SessionLength \in 0..SessionLength
    BY AccountsAssumption
  <2>2. row \in SessionRow
    BY <1>1, <2>1 DEF SessionRow
  <2>. QED  BY <2>2, RowsAssumption
<1>3. /\ sessions[k] = None /\ sessions' = [sessions EXCEPT ![k] = row]
      /\ requests' = [requests EXCEPT ![r] = Idle]
      /\ UNCHANGED << account, challenges >>
  BY DEF IssueToken, NewSession, Release
<1> HIDE DEF row
<1>4. /\ \A l \in Sessions : sessions'[l] = IF l = k THEN row ELSE sessions[l]
      /\ \A p \in Requests : requests'[p] = IF p = r THEN Idle ELSE requests[p]
  BY <1>3 DEF CodesInv, Typed
<1>5. Idle \in RequestRow /\ Idle.pc = "idle"
  BY DEF Idle, RequestRow
<1>6. Typed'
  BY <1>2, <1>3, <1>5 DEF CodesInv, Typed
<1>7. q.code # None => /\ q.pc = "used" /\ Holding(q, "LOGIN") /\ challenges[q.code].used
                       /\ \A l \in Sessions : sessions[l] # None => sessions[l].code # q.code
  BY <1>1 DEF RequestGood
<1>8. ASSUME NEW l \in Sessions PROVE SessionGood(l)'
  <2>1. CASE l = k
    BY <1>2, <1>3, <1>4, <1>7, <2>1 DEF SessionGood, Holding
  <2>2. CASE l # k
    BY <1>3, <1>4, <2>2 DEF SessionGood, CodesInv
  <2>. QED  BY <2>1, <2>2
<1>9. CodesApart'
  BY <1>2, <1>4, <1>7 DEF CodesApart, CodesInv
<1>10. ASSUME NEW p \in Requests PROVE RequestGood(requests[p])'
  <2>1. CASE p = r
    BY <1>4, <1>5, <2>1 DEF RequestGood
  <2>2. CASE p # r
    <3>1. RequestGood(requests[p])
      BY DEF CodesInv
    <3>2. requests[p].pc = "used" => requests[p].code # q.code
      BY <1>1, <2>2, <3>1, RowsAssumption DEF RequestGood, Holding, CodesHeldApart
    <3>3. requests'[p] = requests[p]
      BY <1>4, <2>2
    <3>. QED  BY <1>2, <1>3, <1>4, <3>1, <3>2, <3>3 DEF RequestGood, Holding
  <2>. QED  BY <2>1, <2>2
<1>11. ASSUME NEW e \in Employees PROVE ResetsCounted(e)'
  BY <1>3 DEF CodesInv, ResetsCounted, UsedResets
<1>. QED  BY <1>6, <1>8, <1>9, <1>10, <1>11 DEF CodesInv

LEMMA RequestFailsCodes ==
    ASSUME CodesInv, NEW r \in Requests, RequestFails(r) PROVE CodesInv'
<1>1. requests' = [requests EXCEPT ![r] = Idle] /\ UNCHANGED << account, sessions, challenges >>
  BY DEF RequestFails, Release
<1>2. Idle \in RequestRow /\ Idle.pc = "idle"
  BY DEF Idle, RequestRow
<1>3. \A p \in Requests : requests'[p].pc = "idle" \/ requests'[p] = requests[p]
  BY <1>1, <1>2 DEF CodesInv, Typed
<1>4. Typed' /\ SameCodes /\ SameSessionCodes /\ SamePasswords
  BY <1>1, <1>2 DEF CodesInv, Typed, SameCodes, SameSessionCodes, SamePasswords
<1>. QED  BY <1>3, <1>4, NothingSpent, RequestsKeep

\* Sockets, devices and shifts are edited without a look at sessions, codes or requests.
Elsewhere == UNCHANGED << mode, account, sessions, challenges, requests >>

LEMMA StepsElsewhere ==
    /\ \A s \in Sockets, k \in Sessions : Connect(s, k) => Elsewhere
    /\ \A s \in Sockets : Revalidate(s) \/ ClientLeaves(s) => Elsewhere
    /\ \A e \in Employees, d \in Devices : ApproveDevice(e, d) \/ RevokeDevice(e, d) => Elsewhere
    /\ \A e \in Employees, day \in Days :
          CreateShift(e, day) \/ UpdateShift(e, day) \/ CancelShift(e, day) => Elsewhere
    /\ \A e \in Employees, from, to \in Days : MoveShift(e, from, to) => Elsewhere
    /\ UNCHANGED vars => Elsewhere
<1>1. \A s \in Sockets, k \in Sessions : Connect(s, k) => Elsewhere
  BY DEF Connect, Elsewhere, policy
<1>2. \A s \in Sockets : Revalidate(s) \/ ClientLeaves(s) => Elsewhere
  BY DEF Revalidate, ClientLeaves, Elsewhere, policy
<1>3. \A e \in Employees, d \in Devices : ApproveDevice(e, d) \/ RevokeDevice(e, d) => Elsewhere
  BY DEF ApproveDevice, RevokeDevice, Elsewhere
<1>4. \A e \in Employees, day \in Days :
          CreateShift(e, day) \/ UpdateShift(e, day) \/ CancelShift(e, day) => Elsewhere
  BY DEF CreateShift, UpdateShift, CancelShift, SetShift, Elsewhere
<1>5. \A e \in Employees, from, to \in Days : MoveShift(e, from, to) => Elsewhere
  BY DEF MoveShift, Elsewhere
<1>6. UNCHANGED vars => Elsewhere
  BY DEF vars, Elsewhere
<1>. QED  BY <1>1, <1>2, <1>3, <1>4, <1>5, <1>6

LEMMA ElsewhereCodes == CodesInv /\ Elsewhere => CodesInv'
<1>. SUFFICES ASSUME CodesInv, Elsewhere PROVE CodesInv'
  OBVIOUS
<1>1. Typed' /\ SameCodes /\ SameSessionCodes /\ SamePasswords
  BY DEF Elsewhere, CodesInv, Typed, SameCodes, SameSessionCodes, SamePasswords
<1>2. \A r \in Requests : requests'[r] = requests[r]
  BY DEF Elsewhere
<1>. QED  BY <1>1, <1>2, NothingSpent, RequestsKeep

LEMMA StepCodes == CodesInv /\ CodesHeldApart /\ [Next]_vars => CodesInv'
<1>. SUFFICES ASSUME CodesInv, CodesHeldApart, [Next]_vars PROVE CodesInv'
  OBVIOUS
<1>1. ASSUME NEW e \in Employees, SetActive(e) PROVE CodesInv'
  BY <1>1, SetActiveCodes
<1>2. ASSUME NEW r \in Requests, NEW e \in Employees, NEW d \in Devices \cup {NoDevice},
             Login(r, e, d)
      PROVE  CodesInv'
  BY <1>2, LoginCodes
<1>3. ASSUME NEW r \in Requests, NEW c \in Challenges, SendCode(r, c) \/ ReadReset(r, c)
      PROVE  CodesInv'
  <2>1. CASE SendCode(r, c)
    <3>1. requests[r].employee \in Employees /\ requests[r].device \in Devices \cup {NoDevice}
      BY <2>1 DEF SendCode, CodesInv, Typed, RequestGood, RequestRow
    <3>. QED  BY <2>1, <3>1, NewCodeCodes DEF SendCode
  <2>. QED  BY <1>3, <2>1, ReadResetCodes
<1>4. ASSUME NEW r \in Requests, NEW k \in Sessions, IssueToken(r, k) PROVE CodesInv'
  BY <1>4, IssueTokenCodes
<1>5. ASSUME NEW r \in Requests, CommitVerified(r) \/ CommitReset(r) \/ RequestFails(r)
      PROVE  CodesInv'
  BY <1>5, CommitVerifiedCodes, CommitResetCodes, RequestFailsCodes
<1>6. ASSUME NEW c \in Challenges, NEW d \in Devices \cup {NoDevice},
             WrongCode(c, d) \/ \E r \in Requests : VerifyCode(r, c, d)
      PROVE  CodesInv'
  BY <1>6, WrongCodeCodes, VerifyCodes
<1>7. ASSUME NEW c \in Challenges, NEW e \in Employees, RequestReset(c, e) PROVE CodesInv'
  BY <1>7, NewCodeCodes DEF RequestReset
<1>8. ASSUME NEW k \in Sessions, Logout(k) \/ RevokeSession(k) PROVE CodesInv'
  BY <1>8, EndedCodes DEF Logout, RevokeSession, TokenAccepted
<1>9. CASE Tick
  BY <1>9, TickCodes
<1>. QED
  BY <1>1, <1>2, <1>3, <1>4, <1>5, <1>6, <1>7, <1>8, <1>9, StepsElsewhere, ElsewhereCodes DEF Next

\* A login code opens one session and a reset code changes one password, for any number of
\* codes, requests, failures and expiries, as long as no two requests hold one code:
\* verify_login_otp reads used_at long before it commits it.
THEOREM CodesWork == Spec /\ []CodesHeldApart => []CodesWorkOnce
<1>1. CodesInv => CodesWorkOnce
  BY DEF CodesInv, CodesApart, ResetsCounted, UsedResets, CodesWorkOnce
<1>. QED  BY <1>1, InitCodes, StepCodes, PTL DEF Spec

-----------------------------------------------------------------------------
(* One live session. *)

\* What a request says of its employee and its code holds of the rows.
RequestTyped(q) ==
    /\ q.pc # "idle" => q.employee \in Employees
    /\ q.pc \in {"verified", "reset", "used"} =>
          q.code \in Challenges /\ challenges[q.code] # None

\* Unlike CodesInv this needs no hypothesis.
TypesInv == Typed /\ \A r \in Requests : RequestTyped(requests[r])

LEMMA InitTypes == Init => TypesInv
BY InitCodes DEF CodesInv, TypesInv, RequestGood, RequestTyped, Holding

CodesStay == \A c \in Challenges : challenges[c] # None => challenges'[c] # None

RequestFits(r) ==
    requests'[r].pc = "idle" \/ requests'[r] = requests[r] \/ RequestTyped(requests[r])'

LEMMA TypesMove ==
    ASSUME TypesInv, Typed', CodesStay, \A r \in Requests : RequestFits(r)
    PROVE  TypesInv'
BY DEF TypesInv, CodesStay, RequestFits, RequestTyped

LEMMA RequestMoves ==
    ASSUME TypesInv, NEW r \in Requests, NEW q \in RequestRow, requests' = [requests EXCEPT ![r] = q]
    PROVE  /\ requests' \in [Requests -> RequestRow]
           /\ \A p \in Requests : requests'[p] = IF p = r THEN q ELSE requests[p]
BY DEF TypesInv, Typed

LEMMA ReleaseMoves ==
    ASSUME TypesInv, NEW r \in Requests, Release(r)
    PROVE  requests' \in [Requests -> RequestRow] /\ \A p \in Requests : RequestFits(p)
<1>1. Idle \in RequestRow /\ Idle.pc = "idle"
  BY DEF Idle, RequestRow
<1>. QED  BY <1>1, RequestMoves DEF Release, RequestFits

LEMMA BeginsTypes ==
    ASSUME TypesInv, NEW r \in Requests, NEW q \in RequestRow, RequestTyped(q),
           requests' = [requests EXCEPT ![r] = q], UNCHANGED << account, sessions, challenges >>
    PROVE  TypesInv'
<1>1. requests' \in [Requests -> RequestRow]
      /\ \A p \in Requests : requests'[p] = IF p = r THEN q ELSE requests[p]
  BY RequestMoves
<1>2. Typed' /\ CodesStay
  BY <1>1 DEF TypesInv, Typed, CodesStay
<1>3. \A p \in Requests : RequestFits(p)
  BY <1>1 DEF RequestFits, RequestTyped
<1>. QED  BY <1>2, <1>3, TypesMove

LEMMA HoldsTypes ==
    ASSUME TypesInv, NEW r \in Requests, NEW pc \in {"issue", "verified"}, NEW e \in Employees,
           NEW d \in Devices \cup {NoDevice}, NEW c \in Challenges \cup {None},
           pc = "verified" => c \in Challenges /\ challenges[c] # None,
           \/ Holds(r, pc, e, d, c)
           \/ UNCHANGED requests,
           UNCHANGED << account, sessions, challenges >>
    PROVE  TypesInv'
<1>1. CASE Holds(r, pc, e, d, c)
  <2> DEFINE q == [pc |-> pc, employee |-> e, device |-> d, code |-> c, enrols |-> Enrols(e, d)]
  <2>1. Enrols(e, d) \in BOOLEAN
    BY DEF Enrols
  <2>2. q \in RequestRow
    BY <2>1 DEF RequestRow
  <2>3. RequestTyped(q)
    BY DEF RequestTyped
  <2>. QED  BY <1>1, <2>2, <2>3, BeginsTypes DEF Holds
<1>2. CASE UNCHANGED requests
  <2>1. Typed' /\ CodesStay /\ \A p \in Requests : RequestFits(p)
    BY <1>2 DEF TypesInv, Typed, CodesStay, RequestFits
  <2>. QED  BY <2>1, TypesMove
<1>. QED  BY <1>1, <1>2

\* A row is written into the table of codes.
LEMMA CodeTypes ==
    ASSUME TypesInv, NEW c \in Challenges, NEW row \in ChallengeRow,
           challenges' = [challenges EXCEPT ![c] = row]
    PROVE  challenges' \in [Challenges -> ChallengeRow \cup {None}] /\ CodesStay
<1>1. row # None
  BY RowsAssumption
<1>2. challenges \in [Challenges -> ChallengeRow \cup {None}]
  BY DEF TypesInv, Typed
<1>. QED  BY <1>1, <1>2 DEF CodesStay

LEMMA NewCodeTypes ==
    ASSUME TypesInv, NEW c \in Challenges, NEW purpose \in {"LOGIN", "PASSWORD_RESET"},
           NEW e \in Employees, NEW d \in Devices \cup {NoDevice}, NewCode(c, purpose, e, d),
           UNCHANGED << account, sessions >>,
           requests' = requests \/ \E r \in Requests : Release(r)
    PROVE  TypesInv'
<1> DEFINE row == [purpose |-> purpose, employee |-> e, device |-> d, left |-> CodeLength,
                   attempts |-> 0, used |-> FALSE]
<1>1. row \in ChallengeRow
  BY AccountsAssumption DEF ChallengeRow
<1>2. challenges' = [challenges EXCEPT ![c] = row]
  BY DEF NewCode
<1>3. challenges' \in [Challenges -> ChallengeRow \cup {None}] /\ CodesStay
  BY <1>1, <1>2, CodeTypes
<1>4. requests' \in [Requests -> RequestRow] /\ \A p \in Requests : RequestFits(p)
  <2>1. CASE requests' = requests
    BY <2>1 DEF TypesInv, Typed, RequestFits
  <2>. QED  BY <2>1, ReleaseMoves
<1>. QED  BY <1>3, <1>4, TypesMove DEF TypesInv, Typed

LEMMA MarkUsedTypes ==
    ASSUME TypesInv, NEW c \in Challenges, challenges[c] # None, MarkUsed(c)
    PROVE  challenges' \in [Challenges -> ChallengeRow \cup {None}] /\ CodesStay
<1>1. [challenges[c] EXCEPT !.used = TRUE] \in ChallengeRow
  BY DEF TypesInv, Typed, ChallengeRow
<1>. QED  BY <1>1, CodeTypes DEF MarkUsed

LEMMA WrongCodeTypes ==
    ASSUME TypesInv, NEW c \in Challenges, NEW d \in Devices \cup {NoDevice}, WrongCode(c, d)
    PROVE  TypesInv'
<1>1. challenges[c] \in ChallengeRow /\ challenges[c].attempts < MaxAttempts
  BY DEF WrongCode, Usable, TypesInv, Typed
<1>2. [challenges[c] EXCEPT !.attempts = @ + 1] \in ChallengeRow
  BY <1>1, AccountsAssumption DEF ChallengeRow
<1>3. challenges' \in [Challenges -> ChallengeRow \cup {None}] /\ CodesStay
  BY <1>2, CodeTypes DEF WrongCode
<1>. QED  BY <1>3, TypesMove DEF WrongCode, TypesInv, Typed, RequestFits

LEMMA CommitVerifiedTypes ==
    ASSUME TypesInv, NEW r \in Requests, CommitVerified(r) PROVE TypesInv'
<1> DEFINE q == [requests[r] EXCEPT !.pc = "used", !.enrols = FALSE]
<1>1. requests[r] \in RequestRow /\ RequestTyped(requests[r]) /\ requests[r].pc = "verified"
  BY DEF CommitVerified, TypesInv, Typed
<1>2. /\ q \in RequestRow /\ q.employee \in Employees
      /\ q.code \in Challenges /\ challenges[q.code] # None /\ q.code = requests[r].code
  BY <1>1 DEF RequestRow, RequestTyped
<1>3. MarkUsed(q.code) /\ UNCHANGED << account, sessions >>
      /\ requests' = [requests EXCEPT ![r] = q]
  BY <1>2 DEF CommitVerified
<1> HIDE DEF q
<1>4. challenges' \in [Challenges -> ChallengeRow \cup {None}] /\ CodesStay
  BY <1>2, <1>3, MarkUsedTypes
<1>5. requests' \in [Requests -> RequestRow]
      /\ \A p \in Requests : requests'[p] = IF p = r THEN q ELSE requests[p]
  BY <1>2, <1>3, RequestMoves
<1>6. \A p \in Requests : RequestFits(p)
  BY <1>2, <1>4, <1>5 DEF RequestFits, RequestTyped, CodesStay
<1>. QED  BY <1>3, <1>4, <1>5, <1>6, TypesMove DEF TypesInv, Typed

\* The passwords count the resets; whether a code is mailed at login stays.
SameOtp == \A e \in Employees : account'[e].otp = account[e].otp

LEMMA AccountTypes ==
    /\ \A e \in Employees : TypesInv /\ SetActive(e) =>
          SameOtp /\ account' \in [Employees -> [active : BOOLEAN, otp : BOOLEAN, password : Nat]]
    /\ \A r \in Requests : TypesInv /\ CommitReset(r) =>
          SameOtp /\ account' \in [Employees -> [active : BOOLEAN, otp : BOOLEAN, password : Nat]]
<1>1. ASSUME NEW e \in Employees, TypesInv, SetActive(e)
      PROVE  SameOtp /\ account' \in [Employees -> [active : BOOLEAN, otp : BOOLEAN, password : Nat]]
  <2>1. /\ account \in [Employees -> [active : BOOLEAN, otp : BOOLEAN, password : Nat]]
        /\ account' = [account EXCEPT ![e].active = ~account[e].active]
    BY <1>1 DEF SetActive, TypesInv, Typed
  <2>. QED  BY <2>1 DEF SameOtp
<1>2. ASSUME NEW r \in Requests, TypesInv, CommitReset(r)
      PROVE  SameOtp /\ account' \in [Employees -> [active : BOOLEAN, otp : BOOLEAN, password : Nat]]
  <2>1. requests[r].employee \in Employees
    BY <1>2 DEF CommitReset, TypesInv, RequestTyped
  <2>2. /\ account \in [Employees -> [active : BOOLEAN, otp : BOOLEAN, password : Nat]]
        /\ account' = [account EXCEPT ![requests[r].employee].password =
                           account[requests[r].employee].password + 1]
    BY <1>2 DEF CommitReset, TypesInv, Typed
  <2>. QED  BY <2>1, <2>2 DEF SameOtp
<1>. QED  BY <1>1, <1>2

LEMMA CommitResetTypes ==
    ASSUME TypesInv, NEW r \in Requests, CommitReset(r) PROVE TypesInv'
<1>1. requests[r].code \in Challenges /\ challenges[requests[r].code] # None
  BY DEF CommitReset, TypesInv, RequestTyped
<1>2. challenges' \in [Challenges -> ChallengeRow \cup {None}] /\ CodesStay
  BY <1>1, MarkUsedTypes DEF CommitReset
<1>3. requests' \in [Requests -> RequestRow] /\ \A p \in Requests : RequestFits(p)
  BY ReleaseMoves DEF CommitReset
<1>. QED  BY <1>2, <1>3, AccountTypes, TypesMove DEF CommitReset, TypesInv, Typed

LEMMA IssueTokenTypes ==
    ASSUME TypesInv, NEW r \in Requests, NEW k \in Sessions, IssueToken(r, k) PROVE TypesInv'
<1> DEFINE q == requests[r]
           row == [employee |-> q.employee, device |-> q.device, active |-> TRUE,
                   left |-> SessionLength, code |-> q.code]
<1>1. /\ q \in RequestRow /\ q.employee \in Employees
      /\ q.device \in Devices \cup {NoDevice} /\ q.code \in Challenges \cup {None}
  BY DEF IssueToken, TypesInv, Typed, RequestTyped, RequestRow
<1>2. row \in SessionRow
  <2>1. SessionLength \in 0..SessionLength
    BY AccountsAssumption
  <2>. QED  BY <1>1, <2>1 DEF SessionRow
<1>3. sessions' = [sessions EXCEPT ![k] = row] /\ Release(r) /\ UNCHANGED << account, challenges >>
  BY DEF IssueToken, NewSession
<1>4. requests' \in [Requests -> RequestRow] /\ \A p \in Requests : RequestFits(p)
  BY <1>3, ReleaseMoves
<1>. QED  BY <1>2, <1>3, <1>4, TypesMove DEF TypesInv, Typed, CodesStay

LEMMA EndedTypes ==
    ASSUME TypesInv, NEW k \in Sessions, sessions[k] # None,
           sessions' = [sessions EXCEPT ![k] = Ended(k)],
           UNCHANGED << account, challenges, requests >>
    PROVE  TypesInv'
<1>1. Ended(k) \in SessionRow
  BY DEF TypesInv, Typed, Ended, SessionRow
<1>. QED  BY <1>1, TypesMove DEF TypesInv, Typed, CodesStay, RequestFits

LEMMA TickTypes ==
    ASSUME TypesInv, Tick PROVE TypesInv'
<1>1. \A k \in Sessions : Aged(sessions[k]) \in SessionRow \cup {None}
  BY Ages DEF TypesInv, Typed
<1>2. \A c \in Challenges : /\ Aged(challenges[c]) \in ChallengeRow \cup {None}
                            /\ challenges[c] # None => Aged(challenges[c]) # None
  BY Ages DEF TypesInv, Typed
<1>. QED  BY <1>1, <1>2, TypesMove DEF Tick, TypesInv, Typed, CodesStay, RequestFits

LEMMA StepTypes == TypesInv /\ [Next]_vars => TypesInv'
<1>. SUFFICES ASSUME TypesInv, [Next]_vars PROVE TypesInv'
  OBVIOUS
<1>1. ASSUME NEW e \in Employees, SetActive(e) PROVE TypesInv'
  BY <1>1, AccountTypes, TypesMove DEF SetActive, TypesInv, Typed, CodesStay, RequestFits
<1>2. ASSUME NEW r \in Requests, NEW e \in Employees, NEW d \in Devices \cup {NoDevice},
             Login(r, e, d)
      PROVE  TypesInv'
  BY <1>2, HoldsTypes DEF Login
<1>3. ASSUME NEW r \in Requests, NEW c \in Challenges, SendCode(r, c) PROVE TypesInv'
  <2>1. requests[r].employee \in Employees /\ requests[r].device \in Devices \cup {NoDevice}
    BY <1>3 DEF SendCode, TypesInv, Typed, RequestTyped, RequestRow
  <2>. QED  BY <1>3, <2>1, NewCodeTypes DEF SendCode
<1>4. ASSUME NEW r \in Requests, NEW c \in Challenges, ReadReset(r, c) PROVE TypesInv'
  <2> DEFINE q == [Idle EXCEPT !.pc = "reset", !.employee = challenges[c].employee, !.code = c]
  <2>1. challenges[c].employee \in Employees /\ challenges[c] # None
    BY <1>4 DEF ReadReset, Usable, TypesInv, Typed, ChallengeRow
  <2>2. q \in RequestRow /\ RequestTyped(q)
    BY <2>1 DEF RequestRow, RequestTyped, Idle
  <2>. QED  BY <1>4, <2>2, BeginsTypes DEF ReadReset, policy
<1>5. ASSUME NEW r \in Requests, NEW k \in Sessions, IssueToken(r, k) PROVE TypesInv'
  BY <1>5, IssueTokenTypes
<1>6. ASSUME NEW r \in Requests, RequestFails(r) PROVE TypesInv'
  BY <1>6, ReleaseMoves, TypesMove DEF RequestFails, TypesInv, Typed, CodesStay
<1>7. ASSUME NEW c \in Challenges, NEW d \in Devices \cup {NoDevice}, NEW r \in Requests,
             VerifyCode(r, c, d)
      PROVE  TypesInv'
  <2>1. challenges[c].employee \in Employees /\ challenges[c] # None
    BY <1>7 DEF VerifyCode, Usable, TypesInv, Typed, ChallengeRow
  <2>. QED  BY <1>7, <2>1, HoldsTypes DEF VerifyCode
<1>8. ASSUME NEW c \in Challenges, NEW e \in Employees, RequestReset(c, e) PROVE TypesInv'
  BY <1>8, NewCodeTypes DEF RequestReset
<1>9. ASSUME NEW k \in Sessions, Logout(k) \/ RevokeSession(k) PROVE TypesInv'
  BY <1>9, EndedTypes DEF Logout, RevokeSession, TokenAccepted
<1>10. CASE Elsewhere
  BY <1>10, TypesMove DEF Elsewhere, TypesInv, Typed, CodesStay, RequestFits
<1>. QED
  BY <1>1, <1>2, <1>3, <1>4, <1>5, <1>6, <1>7, <1>8, <1>9, <1>10, CommitVerifiedTypes,
     CommitResetTypes, WrongCodeTypes, TickTypes, StepsElsewhere DEF Next

\* While the policy is enforced an employee has one live session, and none while a request
\* is about to open one for the employee.
LiveInv ==
    Enforces =>
        /\ \A k, l \in Sessions :
              Live(k) /\ Live(l) /\ sessions[k].employee = sessions[l].employee => k = l
        /\ \A r \in Requests, k \in Sessions :
              Opens(requests[r]) /\ Live(k) => sessions[k].employee # requests[r].employee

\* No session comes to life.
NoNewLife ==
    \A k \in Sessions : Live(k)' => Live(k) /\ sessions'[k].employee = sessions[k].employee

\* Who is about to open a session was so before, or has none.
Lets(r) ==
    Opens(requests[r])' =>
        \/ Opens(requests[r]) /\ requests'[r].employee = requests[r].employee
        \/ Enforces => \A k \in Sessions : Live(k) => sessions[k].employee # requests'[r].employee

LEMMA NobodyComesAlive ==
    ASSUME LiveInv, UNCHANGED mode, NoNewLife, \A r \in Requests : Lets(r)
    PROVE  LiveInv'
BY DEF LiveInv, NoNewLife, Lets, Enforces

LEMMA InitLive == Init => LiveInv
BY DEF Init, LiveInv, Live

\* A request that goes on as it was opens nothing new.
LEMMA StillLets ==
    ASSUME TypesInv, SameOtp, NEW r \in Requests, requests'[r] = requests[r]
    PROVE  Lets(r)
BY DEF TypesInv, RequestTyped, SameOtp, Lets, Opens

LEMMA SameAccounts == UNCHANGED account => SameOtp
BY DEF SameOtp

LEMMA LoginLets ==
    ASSUME TypesInv, NEW r \in Requests, NEW pc \in {"issue", "verified"}, NEW e \in Employees,
           NEW d \in Devices \cup {NoDevice}, NEW c, UNCHANGED account,
           IF LoginAllowed(e, d) THEN Holds(r, pc, e, d, c) ELSE UNCHANGED requests
    PROVE  \A p \in Requests : Lets(p)
<1>. SUFFICES ASSUME NEW p \in Requests PROVE Lets(p)
  OBVIOUS
<1>1. CASE UNCHANGED requests
  BY <1>1, StillLets, SameAccounts
<1>2. CASE LoginAllowed(e, d) /\ Holds(r, pc, e, d, c)
  <2>1. Enforces => \A k \in Sessions : Live(k) => sessions[k].employee # e
    BY <1>2 DEF LoginAllowed, HasSession
  <2> DEFINE q == [pc |-> pc, employee |-> e, device |-> d, code |-> c, enrols |-> Enrols(e, d)]
  <2>2. q.employee = e /\ requests' = [requests EXCEPT ![r] = q]
    BY <1>2 DEF Holds
  <2> HIDE DEF q
  <2>3. requests'[p] = requests[p] \/ (p = r /\ requests'[p].employee = e)
    <3>1. requests \in [Requests -> RequestRow]
      BY DEF TypesInv, Typed
    <3>2. requests'[p] = IF p = r THEN q ELSE requests[p]
      BY <2>2, <3>1
    <3>. QED  BY <2>2, <3>2
  <2>. QED  BY <2>1, <2>3, StillLets, SameAccounts DEF Lets
<1>. QED  BY <1>1, <1>2

LEMMA ReleaseLets ==
    ASSUME TypesInv, SameOtp, NEW r \in Requests, Release(r) PROVE \A p \in Requests : Lets(p)
<1>. SUFFICES ASSUME NEW p \in Requests PROVE Lets(p)
  OBVIOUS
<1>1. requests'[p] = IF p = r THEN Idle ELSE requests[p]
  BY DEF Release, TypesInv, Typed
<1>2. CASE p = r
  BY <1>1, <1>2 DEF Lets, Idle, Opens
<1>3. CASE p # r
  BY <1>1, <1>3, StillLets
<1>. QED  BY <1>2, <1>3

LEMMA SameSessionsLive == ASSUME UNCHANGED sessions PROVE NoNewLife
BY DEF NoNewLife, Live, Unexpired

LEMMA EndedLive ==
    ASSUME TypesInv, NEW k \in Sessions, sessions' = [sessions EXCEPT ![k] = Ended(k)],
           sessions[k] # None
    PROVE  NoNewLife
<1>1. sessions[k] \in SessionRow
  BY DEF TypesInv, Typed
<1>2. ~Ended(k).active
  BY <1>1 DEF Ended, SessionRow
<1>3. \A l \in Sessions : sessions'[l] = IF l = k THEN Ended(k) ELSE sessions[l]
  BY DEF TypesInv, Typed
<1>. QED  BY <1>2, <1>3 DEF NoNewLife, Live, Unexpired

LEMMA TickLive ==
    ASSUME TypesInv, Tick PROVE NoNewLife
<1>. SUFFICES ASSUME NEW k \in Sessions, Live(k)'
              PROVE  Live(k) /\ sessions'[k].employee = sessions[k].employee
  BY DEF NoNewLife
<1>1. sessions'[k] = Aged(sessions[k]) /\ sessions[k] \in SessionRow \cup {None}
  BY DEF Tick, TypesInv, Typed
<1>2. sessions'[k] # None /\ sessions'[k].active /\ sessions'[k].left > 0
  BY DEF Live, Unexpired
<1>3. sessions[k] \in SessionRow /\ sessions[k] # None
  BY <1>1, <1>2, Ages
<1>. QED  BY <1>1, <1>2, <1>3, Ages DEF Live, Unexpired

LEMMA IssueTokenLive ==
    ASSUME TypesInv, LiveInv, LoginsApart, NEW r \in Requests, NEW k \in Sessions,
           IssueToken(r, k)
    PROVE  LiveInv'
<1> DEFINE q == requests[r]
           row == [employee |-> q.employee, device |-> q.device, active |-> TRUE,
                   left |-> SessionLength, code |-> q.code]
<1>1. /\ Opens(q) /\ sessions[k] = None /\ UNCHANGED << mode, account >>
      /\ \A l \in Sessions : sessions'[l] = IF l = k THEN row ELSE sessions[l]
      /\ \A p \in Requests : requests'[p] = IF p = r THEN Idle ELSE requests[p]
  BY DEF IssueToken, NewSession, Release, Opens, TypesInv, Typed
<1>2. row.employee = q.employee
  OBVIOUS
<1> HIDE DEF row
<1>. SUFFICES ASSUME Enforces
              PROVE  /\ \A l, m \in Sessions :
                           Live(l)' /\ Live(m)' /\ sessions'[l].employee = sessions'[m].employee => l = m
                     /\ \A p \in Requests, l \in Sessions :
                           Opens(requests[p])' /\ Live(l)' => sessions'[l].employee # requests'[p].employee
  BY <1>1 DEF LiveInv, Enforces
<1>3. \A l \in Sessions : l # k => (Live(l)' <=> Live(l)) /\ sessions'[l] = sessions[l]
  BY <1>1 DEF Live, Unexpired
<1>4. \A l \in Sessions : Live(l) => sessions[l].employee # q.employee
  BY <1>1 DEF LiveInv
<1>5. \A l, m \in Sessions :
          Live(l)' /\ Live(m)' /\ sessions'[l].employee = sessions'[m].employee => l = m
  BY <1>1, <1>2, <1>3, <1>4 DEF LiveInv
<1>6. ASSUME NEW p \in Requests, NEW l \in Sessions, Opens(requests[p])', Live(l)'
      PROVE  sessions'[l].employee # requests'[p].employee
  <2>1. p # r /\ requests'[p] = requests[p] /\ Opens(requests[p])
    BY <1>1, <1>6 DEF Opens, Idle
  <2>2. requests[p].employee # q.employee
    BY <1>1, <2>1 DEF LoginsApart
  <2>. QED  BY <1>1, <1>2, <1>3, <1>6, <2>1, <2>2 DEF LiveInv
<1>. QED  BY <1>5, <1>6

LEMMA StepLive == TypesInv /\ LiveInv /\ LoginsApart /\ [Next]_vars => LiveInv'
<1>. SUFFICES ASSUME TypesInv, LiveInv, LoginsApart, [Next]_vars PROVE LiveInv'
  OBVIOUS
<1>0. UNCHANGED requests /\ SameOtp => \A r \in Requests : Lets(r)
  BY StillLets
<1>1. ASSUME NEW e \in Employees, SetActive(e) PROVE LiveInv'
  BY <1>0, <1>1, AccountTypes, SameSessionsLive, NobodyComesAlive DEF SetActive, policy
<1>2. ASSUME NEW r \in Requests, NEW e \in Employees, NEW d \in Devices \cup {NoDevice},
             Login(r, e, d)
      PROVE  LiveInv'
  <2>1. \A p \in Requests : Lets(p)
    BY <1>2, LoginLets DEF Login
  <2>. QED  BY <1>2, <2>1, SameSessionsLive, NobodyComesAlive DEF Login
<1>3. ASSUME NEW r \in Requests, NEW c \in Challenges, SendCode(r, c) PROVE LiveInv'
  <2>1. \A p \in Requests : Lets(p)
    BY <1>3, ReleaseLets, SameAccounts DEF SendCode
  <2>. QED  BY <1>3, <2>1, SameSessionsLive, NobodyComesAlive DEF SendCode
<1>4. ASSUME NEW r \in Requests, NEW c \in Challenges, ReadReset(r, c) PROVE LiveInv'
  <2>1. ASSUME NEW p \in Requests PROVE Lets(p)
    <3>1. CASE p = r
      BY <1>4, <3>1 DEF ReadReset, Lets, Opens, TypesInv, Typed, Idle
    <3>2. CASE p # r
      BY <1>4, <3>2, StillLets, SameAccounts DEF ReadReset, TypesInv, Typed
    <3>. QED  BY <3>1, <3>2
  <2>. QED  BY <1>4, <2>1, SameSessionsLive, NobodyComesAlive DEF ReadReset, policy
<1>5. ASSUME NEW r \in Requests, NEW k \in Sessions, IssueToken(r, k) PROVE LiveInv'
  BY <1>5, IssueTokenLive
<1>6. ASSUME NEW r \in Requests, CommitVerified(r) PROVE LiveInv'
  <2>1. requests[r] \in RequestRow
    BY DEF TypesInv, Typed
  <2> DEFINE q == [requests[r] EXCEPT !.pc = "used", !.enrols = FALSE]
  <2>2. q.employee = requests[r].employee
    BY <2>1 DEF RequestRow
  <2>3. requests' = [requests EXCEPT ![r] = q] /\ requests[r].pc = "verified"
    BY <1>6 DEF CommitVerified
  <2> HIDE DEF q
  <2>4. ASSUME NEW p \in Requests PROVE Lets(p)
    <3>1. CASE p = r
      BY <2>2, <2>3, <3>1 DEF Lets, Opens, TypesInv, Typed
    <3>2. CASE p # r
      BY <1>6, <2>3, <3>2, StillLets, SameAccounts DEF CommitVerified, TypesInv, Typed
    <3>. QED  BY <3>1, <3>2
  <2>. QED  BY <1>6, <2>4, SameSessionsLive, NobodyComesAlive DEF CommitVerified
<1>7. ASSUME NEW r \in Requests, CommitReset(r) \/ RequestFails(r) PROVE LiveInv'
  <2>1. \A p \in Requests : Lets(p)
    BY <1>7, ReleaseLets, AccountTypes, SameAccounts DEF CommitReset, RequestFails
  <2>. QED  BY <1>7, <2>1, SameSessionsLive, NobodyComesAlive DEF CommitReset, RequestFails, policy
<1>8. ASSUME NEW c \in Challenges, NEW d \in Devices \cup {NoDevice}, WrongCode(c, d)
      PROVE  LiveInv'
  BY <1>0, <1>8, SameAccounts, SameSessionsLive, NobodyComesAlive DEF WrongCode, policy
<1>9. ASSUME NEW c \in Challenges, NEW d \in Devices \cup {NoDevice}, NEW r \in Requests,
             VerifyCode(r, c, d)
      PROVE  LiveInv'
  <2>1. challenges[c].employee \in Employees
    BY <1>9 DEF VerifyCode, Usable, TypesInv, Typed, ChallengeRow
  <2>2. \A p \in Requests : Lets(p)
    BY <1>9, <2>1, LoginLets DEF VerifyCode
  <2>. QED  BY <1>9, <2>2, SameSessionsLive, NobodyComesAlive DEF VerifyCode
<1>10. ASSUME NEW c \in Challenges, NEW e \in Employees, RequestReset(c, e) PROVE LiveInv'
  BY <1>0, <1>10, SameAccounts, SameSessionsLive, NobodyComesAlive DEF RequestReset, policy
<1>11. ASSUME NEW k \in Sessions, Logout(k) \/ RevokeSession(k) PROVE LiveInv'
  <2>1. NoNewLife
    BY <1>11, EndedLive DEF Logout, RevokeSession, TokenAccepted
  <2>. QED  BY <1>0, <1>11, <2>1, SameAccounts, NobodyComesAlive DEF Logout, RevokeSession, policy
<1>12. CASE Tick
  BY <1>0, <1>12, SameAccounts, TickLive, NobodyComesAlive DEF Tick
<1>13. CASE Elsewhere
  BY <1>0, <1>13, SameAccounts, SameSessionsLive, NobodyComesAlive DEF Elsewhere
<1>. QED
  BY <1>1, <1>2, <1>3, <1>4, <1>5, <1>6, <1>7, <1>8, <1>9, <1>10, <1>11, <1>12, <1>13,
     StepsElsewhere DEF Next

LEMMA OneAtMost == ASSUME NEW S, \A x, y \in S : x = y PROVE Cardinality(S) <= 1
<1>1. CASE S = {}
  BY <1>1, FS_EmptySet
<1>2. CASE S # {}
  <2>1. PICK x : x \in S
    BY <1>2
  <2>2. S = {x}
    BY <2>1
  <2>. QED  BY <2>2, FS_Singleton
<1>. QED  BY <1>1, <1>2

\* Under an enforced policy an employee never has two live sessions, for any passwords,
\* codes, resets, logouts, revocations and expiries, as long as no two requests are about
\* to open one for the employee: both have found no other session before either is made.
THEOREM OneSession == Spec /\ []LoginsApart => []OneLiveSession
<1>1. ASSUME LiveInv PROVE OneLiveSession
  <2>. SUFFICES ASSUME Enforces, NEW e \in Employees
                PROVE  Cardinality({k \in Sessions : Live(k) /\ sessions[k].employee = e}) <= 1
    BY DEF OneLiveSession
  <2>1. \A k, l \in {m \in Sessions : Live(m) /\ sessions[m].employee = e} : k = l
    BY <1>1 DEF LiveInv
  <2>. QED  BY <2>1, OneAtMost
<1>. QED  BY <1>1, InitTypes, StepTypes, InitLive, StepLive, PTL DEF Spec

-----------------------------------------------------------------------------
(* The shift gate. *)

\* How long after a the next b of a day comes.
LEMMA Modulo ==
    ASSUME NEW L \in Nat \ {0}, NEW a \in 0..L-1, NEW b \in 0..L-1
    PROVE  (b - a) % L = IF b >= a THEN b - a ELSE b - a + L
  OBVIOUS

RosterInv == now \in Nat /\ shifts \in [Employees -> [Days -> ShiftRows]]

LEMMA InitRoster == Init => RosterInv
BY AccountsAssumption DEF Init, RosterInv

\* What an action does to the roster.
RosterMoves ==
    /\ now' \in {now, now + 1}
    /\ \/ UNCHANGED shifts
       \/ \E e \in Employees, day \in Days, row \in ShiftRows :
             shifts' = [shifts EXCEPT ![e][day] = row]
       \/ \E e \in Employees, from, to \in Days :
             shifts' = [shifts EXCEPT ![e][to] = shifts[e][from], ![e][from] = NoShift]

LEMMA MovesKeepRows == RosterInv /\ RosterMoves => RosterInv'
<1>. SUFFICES ASSUME RosterInv, RosterMoves PROVE RosterInv'
  OBVIOUS
<1>1. now' \in Nat
  BY DEF RosterInv, RosterMoves
<1>2. CASE UNCHANGED shifts
  BY <1>1, <1>2 DEF RosterInv
<1>3. ASSUME NEW e \in Employees, NEW day \in Days, NEW row \in ShiftRows,
             shifts' = [shifts EXCEPT ![e][day] = row]
      PROVE  RosterInv'
  BY <1>1, <1>3 DEF RosterInv
<1>4. ASSUME NEW e \in Employees, NEW from \in Days, NEW to \in Days,
             shifts' = [shifts EXCEPT ![e][to] = shifts[e][from], ![e][from] = NoShift]
      PROVE  RosterInv'
  <2>1. NoShift \in ShiftRows /\ shifts[e][from] \in ShiftRows
    BY DEF RosterInv, ShiftRows
  <2>2. [shifts EXCEPT ![e][to] = shifts[e][from]] \in [Employees -> [Days -> ShiftRows]]
    BY <2>1 DEF RosterInv
  <2>. QED  BY <1>1, <1>4, <2>1, <2>2 DEF RosterInv
<1>. QED  BY <1>2, <1>3, <1>4 DEF RosterMoves

LEMMA StepRoster == RosterInv /\ [Next]_vars => RosterInv'
<1>. SUFFICES ASSUME RosterInv, [Next]_vars PROVE RosterMoves
  BY MovesKeepRows
<1>0. UNCHANGED << now, shifts >> => RosterMoves
  BY DEF RosterMoves
<1>1. ASSUME NEW e \in Employees, SetActive(e) PROVE RosterMoves
  BY <1>0, <1>1 DEF SetActive, policy
<1>2. ASSUME NEW r \in Requests, NEW e \in Employees, NEW d \in Devices \cup {NoDevice},
             Login(r, e, d)
      PROVE  RosterMoves
  BY <1>0, <1>2 DEF Login
<1>3. ASSUME NEW r \in Requests, NEW c \in Challenges, SendCode(r, c) \/ ReadReset(r, c)
      PROVE  RosterMoves
  BY <1>0, <1>3 DEF SendCode, ReadReset, policy
<1>4. ASSUME NEW r \in Requests, NEW k \in Sessions, IssueToken(r, k) PROVE RosterMoves
  BY <1>0, <1>4 DEF IssueToken
<1>5. ASSUME NEW r \in Requests, CommitVerified(r) \/ CommitReset(r) \/ RequestFails(r)
      PROVE  RosterMoves
  BY <1>0, <1>5 DEF CommitVerified, CommitReset, RequestFails, policy
<1>6. ASSUME NEW c \in Challenges, NEW d \in Devices \cup {NoDevice},
             WrongCode(c, d) \/ \E r \in Requests : VerifyCode(r, c, d)
      PROVE  RosterMoves
  BY <1>0, <1>6 DEF WrongCode, VerifyCode, policy
<1>7. ASSUME NEW c \in Challenges, NEW e \in Employees, RequestReset(c, e) PROVE RosterMoves
  BY <1>0, <1>7 DEF RequestReset, policy
<1>8. ASSUME NEW k \in Sessions, Logout(k) \/ RevokeSession(k) PROVE RosterMoves
  BY <1>0, <1>8 DEF Logout, RevokeSession, policy
<1>9. ASSUME NEW s \in Sockets, Revalidate(s) \/ ClientLeaves(s) \/ \E k \in Sessions : Connect(s, k)
      PROVE  RosterMoves
  BY <1>0, <1>9 DEF Revalidate, ClientLeaves, Connect, policy
<1>10. ASSUME NEW e \in Employees, NEW d \in Devices, ApproveDevice(e, d) \/ RevokeDevice(e, d)
       PROVE  RosterMoves
  BY <1>0, <1>10 DEF ApproveDevice, RevokeDevice
<1>11. ASSUME NEW e \in Employees, NEW day \in Days,
              CreateShift(e, day) \/ UpdateShift(e, day) \/ CancelShift(e, day)
       PROVE  RosterMoves
  <2>1. ASSUME NEW row \in ShiftRows, SetShift(e, day, row) PROVE RosterMoves
    BY <2>1 DEF SetShift, RosterMoves
  <2>2. CASE CreateShift(e, day)
    <3>1. PICK x \in Shapes : SetShift(e, day, Shift(x, "scheduled"))
      BY <2>2 DEF CreateShift
    <3>. QED  BY <2>1, <3>1 DEF ShiftRows
  <2>3. CASE UpdateShift(e, day)
    BY <2>1, <2>3 DEF UpdateShift
  <2>4. CASE CancelShift(e, day)
    <3>1. shifts[e][day] \in ShiftRows /\ shifts[e][day] # NoShift
      BY <2>4 DEF CancelShift, RosterInv
    <3>2. PICK x \in Shapes, status \in {"scheduled", "cancelled"} : shifts[e][day] = Shift(x, status)
      BY <3>1 DEF ShiftRows
    <3>3. [shifts[e][day] EXCEPT !.status = "cancelled"] = Shift(x, "cancelled")
      BY <3>2 DEF Shift
    <3>4. Shift(x, "cancelled") \in ShiftRows
      BY DEF ShiftRows
    <3>. QED  BY <2>1, <2>4, <3>3, <3>4 DEF CancelShift
  <2>. QED  BY <1>11, <2>2, <2>3, <2>4
<1>12. ASSUME NEW e \in Employees, NEW from \in Days, NEW to \in Days, MoveShift(e, from, to)
       PROVE  RosterMoves
  BY <1>12 DEF MoveShift, RosterMoves
<1>13. CASE Tick
  BY <1>13 DEF Tick, RosterMoves
<1>14. CASE UNCHANGED vars
  BY <1>0, <1>14 DEF vars
<1>. QED
  BY <1>1, <1>2, <1>3, <1>4, <1>5, <1>6, <1>7, <1>8, <1>9, <1>10, <1>11, <1>12, <1>13, <1>14
  DEF Next

\* Today's and yesterday's rows are compared with the clock as the roster means them.
LEMMA RowRead ==
    ASSUME RosterInv, NEW e \in Employees, NEW day \in Days
    PROVE  (shifts[e][day] # NoShift /\ Covers(shifts[e][day], day)) <=> InShift(e, day)
<1>. SUFFICES ASSUME shifts[e][day] # NoShift
              PROVE  Covers(shifts[e][day], day) <=> InShift(e, day)
  BY DEF InShift
<1> DEFINE row == shifts[e][day]
<1>1. PICK x \in Shapes, status \in {"scheduled", "cancelled"} : row = Shift(x, status)
  BY DEF RosterInv, ShiftRows
<1>2. /\ row.status = status /\ row.start = x.start /\ row.end = x.end
      /\ row.before = x.before /\ row.after = x.after
  BY <1>1 DEF Shift
<1>3. /\ x.start \in 0..DayLength-1 /\ x.end \in 0..DayLength-1
      /\ x.before \in Nat /\ x.after \in Nat
      /\ DayLength \in Nat \ {0} /\ day \in Nat /\ now \in Nat
  BY AccountsAssumption DEF RosterInv
<1> DEFINE base == day * DayLength
<1>4. base \in Int /\ (day + 1) * DayLength = base + DayLength
  BY <1>3
<1>6. Covers(row, day) <=>
         /\ status = "scheduled"
         /\ base + x.start - x.before <= now
         /\ now <= (IF x.end <= x.start THEN base + DayLength ELSE base) + x.end + x.after
  <2>1. (IF x.end <= x.start THEN day + 1 ELSE day) * DayLength =
        IF x.end <= x.start THEN base + DayLength ELSE base
    BY <1>4
  <2> HIDE DEF base
  <2>. QED  BY <1>2, <1>3, <1>4, <2>1 DEF Covers, base
<1>7. (x.end - x.start) % DayLength =
      IF x.end >= x.start THEN x.end - x.start ELSE x.end - x.start + DayLength
  BY <1>3, Modulo
<1> DEFINE length == (x.end - x.start) % DayLength
           until == base + x.start + (IF length = 0 THEN DayLength ELSE length) + x.after
<1>8. until = (IF x.end <= x.start THEN base + DayLength ELSE base) + x.end + x.after
  BY <1>3, <1>4, <1>7
<1>9. InShift(e, day) <=>
         /\ status = "scheduled"
         /\ base + x.start - x.before <= now
         /\ now <= until
  <2>1. PICK r : r = shifts[e][day]
    OBVIOUS
  <2>2. PICK l : l = (r.end - r.start) % DayLength
    OBVIOUS
  <2>3. PICK start : start = day * DayLength + r.start
    OBVIOUS
  <2>4. InShift(e, day) <=>
           /\ r.status = "scheduled"
           /\ start - r.before <= now
           /\ now <= start + (IF l = 0 THEN DayLength ELSE l) + r.after
    BY <2>1, <2>2, <2>3 DEF InShift
  <2>5. /\ r.status = status /\ r.start = x.start /\ r.end = x.end
        /\ r.before = x.before /\ r.after = x.after
    BY <1>2, <2>1
  <2>6. l = length /\ start = base + x.start
    BY <2>2, <2>3, <2>5
  <2>7. start - r.before = base + x.start - x.before
    <3> HIDE DEF base
    <3>. QED  BY <1>3, <1>4, <2>5, <2>6
  <2>8. start + (IF l = 0 THEN DayLength ELSE l) + r.after = until
    <3> HIDE DEF length, base
    <3>. QED  BY <2>5, <2>6 DEF until
  <2>. QED  BY <2>4, <2>5, <2>7, <2>8
<1> HIDE DEF base, until
<1>. QED  BY <1>2, <1>6, <1>8, <1>9

\* For shifts of any hours and graces and days of any length: the gate lets nobody in
\* outside a scheduled shift and its graces, and on the shift's date and the date after it
\* keeps nobody out.
THEOREM GateReadsRoster == Spec => []GateFollowsRoster
<1>1. ASSUME RosterInv PROVE GateFollowsRoster
  <2>. SUFFICES ASSUME NEW e \in Employees
                PROVE  /\ OnShift(e) => \E day \in Days : InShift(e, day)
                       /\ \A day \in Days :
                             InShift(e, day) /\ Today \in {day, day + 1} => OnShift(e)
    BY DEF GateFollowsRoster
  <2>1. \A day \in Days :
           (shifts[e][day] # NoShift /\ Covers(shifts[e][day], day)) <=> InShift(e, day)
    BY <1>1, RowRead
  <2>2. ASSUME NEW day \in Days, InShift(e, day), Today \in {day, day + 1} PROVE OnShift(e)
    <3>1. day \in Nat
      BY AccountsAssumption
    <3>2. day \in {Today - 1, Today}
      BY <2>2, <3>1
    <3>. QED  BY <2>1, <2>2, <3>2 DEF OnShift
  <2>. QED  BY <2>1, <2>2 DEF OnShift
<1>. QED  BY <1>1, InitRoster, StepRoster, PTL DEF Spec
=============================================================================
