------------------------------- MODULE Sessions -------------------------------
(***************************************************************************)
(* Sign-in, lockout, password changes and refresh sessions of one account, *)
(* of an admin (auth.Controller.js, admin_sessions) or of a customer       *)
(* (customerAuth.Controller.js, customer_sessions).                        *)
(*                                                                         *)
(* A sign-in reads the row, compares the password and writes the counters  *)
(* it read back; a password change compares, writes the password and       *)
(* revokes sessions, in one transaction for admins and in one statement    *)
(* after the other for customers.  Other requests come in between, and a   *)
(* request may die between two statements.                                 *)
(***************************************************************************)
EXTENDS Naturals, FiniteSets

CONSTANTS Requests,     \* requests that run at the same time
          SessionIds,   \* refresh tokens there may be
          NoSession,
          LockTiers,    \* LOCKOUT_THRESHOLDS: the numbers of attempts
          MaxFails,     \* bound: failed attempts on record
          MaxPassword,  \* bound: versions of the password
          MaxReset      \* bound: reset links, or reset codes, sent

ASSUME SessionsAssumption == /\ NoSession \notin SessionIds
                             /\ LockTiers \subseteq Nat \ {0}
                             /\ MaxFails \in Nat /\ MaxPassword \in Nat \ {0} /\ MaxReset \in Nat

VARIABLES
  kind,         \* "admin" or "customer": which tables and endpoints
  password,     \* version of the password on record
  fails,        \* failed_login_attempts
  locked,       \* account_locked_until is set and in the future
  session,      \* session -> its row, with the password it was opened with
  reset,        \* the admin's reset token, or the customer's reset code
  request,      \* request -> where it is and what it read
  expired,      \* history: the last lock ended by time
  excused,      \* history: sessions kept by a change, or opened by a late sign-in
  torn,         \* history: a customer's change died before it revoked
  spent         \* history: reset ids that have set a password

accountVars == <<password, fails, locked>>
historyVars == <<expired, excused, torn, spent>>
vars == <<kind, password, fails, locked, session, reset, request, expired, excused, torn, spent>>

-----------------------------------------------------------------------------
Versions == 1 .. MaxPassword
OAuth == 0      \* the "password" of a session opened through Google or GitHub
SessionRow == [state : {"none", "live", "revoked"}, password : Versions \cup {OAuth}]
ResetRow == [id : 0 .. MaxReset, open : BOOLEAN]
Steps == {"idle", "compare", "insert", "change", "use", "set", "revoke"}
Request == [step : Steps, password : Versions \cup {OAuth}, fails : 0 .. MaxFails,
            keep : SessionIds \cup {NoSession}, reset : 0 .. MaxReset]

Idle == [step |-> "idle", password |-> OAuth, fails |-> 0, keep |-> NoSession, reset |-> 0]
Fresh == [state |-> "none", password |-> OAuth]

At(r, step) == request[r].step = step
Goto(r, step) == request' = [request EXCEPT ![r].step = step]
Finish(r) == request' = [request EXCEPT ![r] = Idle]

(* getLockDuration is positive. *)
EarnsLock(n) == \E t \in LockTiers : n >= t

(* verify*RefreshToken lets a refresh pass. *)
Refreshable(s) == session[s].state = "live"

(* A slip: the sessions opened with the present password only. *)
RevokedCurrent(keep) ==
  [s \in SessionIds |-> IF Refreshable(s) /\ s # keep /\ session[s].password = password
                        THEN [session[s] EXCEPT !.state = "revoked"] ELSE session[s]]

(* UPDATE ... SET is_revoked = TRUE for every session of the account but   *)
(* one.                                                                    *)
Revoked(keep) ==
  [s \in SessionIds |-> IF Refreshable(s) /\ s # keep THEN [session[s] EXCEPT !.state = "revoked"]
                        ELSE session[s]]

Init == /\ kind \in {"admin", "customer"}
        /\ password = 1 /\ fails = 0 /\ locked = FALSE
        /\ session = [s \in SessionIds |-> Fresh]
        /\ reset = [id |-> 0, open |-> FALSE]
        /\ request = [r \in Requests |-> Idle]
        /\ expired = FALSE /\ excused = {} /\ torn = FALSE /\ spent = {}

-----------------------------------------------------------------------------
(* loginCinemaAdmin and loginCustomer.  Which password was sent is not the *)
(* model's business: the comparison may go either way.                     *)

LoginRead(r) ==
  /\ ~locked
  /\ request[r] = Idle
  /\ request' = [request EXCEPT ![r] = [Idle EXCEPT !.step = "compare", !.password = password,
                                                    !.fails = fails]]
  /\ UNCHANGED <<kind, accountVars, session, reset, historyVars>>

(* A slip: the lock starts one attempt late. *)
LoginWrongLate(r) ==
  /\ At(r, "compare")
  /\ request[r].fails < MaxFails
  /\ LET n == request[r].fails + 1 IN
     /\ fails' = n
     /\ locked' = (EarnsLock(n - 1) \/ (kind = "customer" /\ locked))
     /\ expired' = (expired /\ ~EarnsLock(n - 1))
  /\ Finish(r)
  /\ UNCHANGED <<kind, password, session, reset, excused, torn, spent>>

(* The count that was read, plus one.  For an admin account_locked_until   *)
(* is written whether there is a lock or not; for a customer only with a   *)
(* lock.                                                                   *)
LoginWrong(r) ==
  /\ At(r, "compare")
  /\ request[r].fails < MaxFails
  /\ LET n == request[r].fails + 1 IN
     /\ fails' = n
     /\ locked' = (EarnsLock(n) \/ (kind = "customer" /\ locked))
     /\ expired' = (expired /\ ~EarnsLock(n))
  /\ Finish(r)
  /\ UNCHANGED <<kind, password, session, reset, excused, torn, spent>>

LoginRight(r) ==
  /\ At(r, "compare")
  /\ fails' = 0 /\ locked' = FALSE
  /\ Goto(r, "insert")
  /\ UNCHANGED <<kind, password, session, reset, historyVars>>

LoginCinemaAdmin(r) == kind = "admin" /\ (LoginRead(r) \/ LoginWrong(r) \/ LoginRight(r))
LoginCustomer(r) == kind = "customer" /\ (LoginRead(r) \/ LoginWrong(r) \/ LoginRight(r))

(* Google and GitHub sign-in: the lock is asked for, the counters go back, *)
(* no password is involved.                                                *)
OAuthLogin(r) ==
  /\ ~locked
  /\ request[r] = Idle
  /\ fails' = 0 /\ locked' = FALSE
  /\ request' = [request EXCEPT ![r] = [Idle EXCEPT !.step = "insert"]]
  /\ UNCHANGED <<kind, password, session, reset, historyVars>>

(* generateTokenAndSetCookie and its customer twin: the INSERT of the      *)
(* session.  The password may have changed since it was compared.          *)
GenerateTokenAndSetCookie(r) ==
  /\ At(r, "insert")
  /\ \E s \in SessionIds :
       /\ session[s] = Fresh
       /\ session' = [session EXCEPT ![s] = [state |-> "live", password |-> request[r].password]]
       /\ excused' = IF request[r].password \in {OAuth, password} THEN excused ELSE excused \cup {s}
  /\ Finish(r)
  /\ UNCHANGED <<kind, accountVars, reset, expired, torn, spent>>

LockExpires ==
  /\ locked
  /\ locked' = FALSE /\ expired' = TRUE
  /\ UNCHANGED <<kind, password, fails, session, reset, request, excused, torn, spent>>

-----------------------------------------------------------------------------
(* changePassword and changePasswordCustomer: the session whose refresh    *)
(* cookie came with the request stays, or none does.  The access token     *)
(* alone is checked, so that session may be revoked already.               *)

ChangeRead(r, keep) ==
  /\ request[r] = Idle
  /\ keep # NoSession => session[keep] # Fresh
  /\ request' = [request EXCEPT ![r] = [Idle EXCEPT !.step = "change", !.password = password,
                                                    !.keep = keep]]
  /\ UNCHANGED <<kind, accountVars, session, reset, historyVars>>

ChangePassword(r) ==
  /\ kind = "admin"
  /\ At(r, "change")
  /\ password < MaxPassword
  /\ password' = password + 1
  /\ session' = Revoked(request[r].keep)
  /\ excused' = excused \cup ({request[r].keep} \ {NoSession})
  /\ Finish(r)
  /\ UNCHANGED <<kind, fails, locked, reset, expired, torn, spent>>

ChangePasswordCustomer(r) ==
  /\ kind = "customer"
  /\ At(r, "change")
  /\ password < MaxPassword
  /\ password' = password + 1
  /\ excused' = excused \cup ({request[r].keep} \ {NoSession})
  /\ Goto(r, "revoke")
  /\ UNCHANGED <<kind, fails, locked, session, reset, expired, torn, spent>>

(* The customer's sessions, in the statement after. *)
RevokeSessions(r) ==
  /\ At(r, "revoke")
  /\ session' = Revoked(request[r].keep)
  /\ Finish(r)
  /\ UNCHANGED <<kind, accountVars, reset, historyVars>>

-----------------------------------------------------------------------------
(* forgotPassword replaces the admin's token; forgotPasswordCustomer       *)
(* overwrites the customer's reset code in its row.                        *)
ForgotPassword ==
  /\ reset.id < MaxReset
  /\ reset' = [id |-> reset.id + 1, open |-> TRUE]
  /\ UNCHANGED <<kind, accountVars, session, request, historyVars>>

(* The link or code runs out: fifteen minutes, five minutes. *)
ResetExpires ==
  /\ reset.open
  /\ reset' = [reset EXCEPT !.open = FALSE]
  /\ UNCHANGED <<kind, accountVars, session, request, historyVars>>

ResetRead(r) ==
  /\ reset.open
  /\ request[r] = Idle
  /\ request' = [request EXCEPT ![r] = [Idle EXCEPT !.step = IF kind = "admin" THEN "set" ELSE "use",
                                                    !.password = password, !.reset = reset.id]]
  /\ UNCHANGED <<kind, accountVars, session, reset, historyVars>>

(* A slip: nothing marks the token. *)
ResetClosedNot(id) == reset

(* UPDATE admin_password_reset_tokens SET used: the token that was read,   *)
(* not one that has replaced it.                                           *)
ResetClosed(id) == [reset EXCEPT !.open = @ /\ reset.id # id]

(* resetPassword: password, token and sessions in a transaction.  The      *)
(* counters of failed sign-ins stay.                                       *)
ResetPassword(r) ==
  /\ kind = "admin"
  /\ At(r, "set")
  /\ password < MaxPassword
  /\ password' = password + 1
  /\ reset' = ResetClosed(request[r].reset)
  /\ session' = Revoked(NoSession)
  /\ spent' = spent \cup {request[r].reset}
  /\ Finish(r)
  /\ UNCHANGED <<kind, fails, locked, expired, excused, torn>>

(* resetPasswordCustomer: the row of the code keeps its id when the code   *)
(* is replaced, so the UPDATE marks whatever code is there; then the       *)
(* password with the counters, then the sessions.                          *)
UseResetCode(r) ==
  /\ At(r, "use")
  /\ reset' = [reset EXCEPT !.open = FALSE]
  /\ Goto(r, "set")
  /\ UNCHANGED <<kind, accountVars, session, historyVars>>

ResetPasswordCustomer(r) ==
  /\ kind = "customer"
  /\ At(r, "set")
  /\ password < MaxPassword
  /\ password' = password + 1
  /\ fails' = 0 /\ locked' = FALSE
  /\ spent' = spent \cup {request[r].reset}
  /\ Goto(r, "revoke")
  /\ UNCHANGED <<kind, session, reset, expired, excused, torn>>

-----------------------------------------------------------------------------
(* logoutCinemaAdmin and logoutCustomer; logoutAllDevices. *)
Logout(s) ==
  /\ Refreshable(s)
  /\ session' = [session EXCEPT ![s].state = "revoked"]
  /\ UNCHANGED <<kind, accountVars, reset, request, historyVars>>

LogoutAllDevices ==
  /\ kind = "admin"
  /\ session' = Revoked(NoSession)
  /\ UNCHANGED <<kind, accountVars, reset, request, historyVars>>

RequestFails(r) ==
  /\ request[r] # Idle
  /\ torn' = (torn \/ At(r, "revoke"))
  /\ Finish(r)
  /\ UNCHANGED <<kind, accountVars, session, reset, expired, excused, spent>>

-----------------------------------------------------------------------------
Handle(r) ==
  \/ LoginCinemaAdmin(r) \/ LoginCustomer(r) \/ OAuthLogin(r) \/ GenerateTokenAndSetCookie(r)
  \/ \E keep \in SessionIds \cup {NoSession} : ChangeRead(r, keep)
  \/ ChangePassword(r) \/ ChangePasswordCustomer(r)
  \/ ResetRead(r) \/ ResetPassword(r) \/ UseResetCode(r) \/ ResetPasswordCustomer(r)
  \/ RevokeSessions(r) \/ RequestFails(r)

Next ==
  \/ \E r \in Requests : Handle(r)
  \/ \E s \in SessionIds : Logout(s)
  \/ LogoutAllDevices \/ LockExpires \/ ForgotPassword \/ ResetExpires

Spec == Init /\ [][Next]_vars

-----------------------------------------------------------------------------
(* Counters stay in their bounds, and an admin's request never reaches the *)
(* steps of the customers' endpoints.                                      *)
TypeOK ==
  /\ kind \in {"admin", "customer"}
  /\ password \in Versions /\ fails \in 0 .. MaxFails /\ locked \in BOOLEAN
  /\ session \in [SessionIds -> SessionRow]
  /\ reset \in ResetRow
  /\ request \in [Requests -> Request]
  /\ expired \in BOOLEAN /\ torn \in BOOLEAN
  /\ excused \subseteq SessionIds /\ spent \subseteq 1 .. MaxReset
  /\ kind = "admin" => \A r \in Requests : request[r].step \notin {"use", "revoke"}

(* A changed password ends the sessions opened with the old one            *)
(* (changePassword and resetPassword): a session that can still be         *)
(* refreshed was opened with the present password or through a provider,   *)
(* was kept by the change, or was opened by a sign-in that had compared    *)
(* the old password before.  For a customer the revocation may be still to *)
(* come, or have been lost with its request.                               *)
OldSessionsEnd ==
  \A s \in SessionIds : Refreshable(s) =>
    \/ session[s].password \in {OAuth, password}
    \/ s \in excused
    \/ torn \/ \E r \in Requests : At(r, "revoke")

(* Whatever stale counts racing sign-ins write back, a count on record     *)
(* that earns a lock comes with the lock, unless the lock has run out; and *)
(* an admin's lock comes with such a count (loginCinemaAdmin,              *)
(* loginCustomer, resetPassword).                                          *)
LockedAtThreshold ==
  /\ EarnsLock(fails) => locked \/ expired
  /\ kind = "admin" /\ locked => EarnsLock(fails)

(* A reset link or code that has set a password cannot be read again as    *)
(* open (resetPassword, resetPasswordCustomer).  Two requests that read it *)
(* before either used it both set a password.                              *)
SpentStaysSpent == reset.open => reset.id \notin spent
=============================================================================
