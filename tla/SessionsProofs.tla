--------------------------- MODULE SessionsProofs ---------------------------
(***************************************************************************)
(* Proofs about Sessions, for any requests, sessions and tiers.            *)
(*                                                                         *)
(* The inductive invariant adds to the three properties what a request has *)
(* in hand: the reset it is about to use or has used is one that was       *)
(* opened, and no longer open once used (RequestsFit), and ids of resets   *)
(* only grow (ResetsFit).                                                  *)
(***************************************************************************)
EXTENDS Sessions, TLAPS

(* What a request decided earlier still holds when it writes.              *)
RequestsFit ==
  \A r \in Requests :
    /\ At(r, "use") \/ At(r, "set") => /\ request[r].reset \in 1 .. reset.id
                                       /\ request[r].keep = NoSession
    /\ kind = "customer" /\ At(r, "set") /\ reset.open => reset.id # request[r].reset
    /\ At(r, "revoke") => request[r].keep \in {NoSession} \cup excused

ResetsFit == (reset.open => reset.id >= 1) /\ spent \subseteq 1 .. reset.id

SessionsInv ==
  TypeOK /\ RequestsFit /\ ResetsFit /\ OldSessionsEnd /\ LockedAtThreshold /\ SpentStaysSpent

-----------------------------------------------------------------------------
LEMMA IdleType ==
  /\ Idle \in Request
  /\ Idle.step = "idle" /\ Idle.password = OAuth /\ Idle.fails = 0
  /\ Idle.keep = NoSession /\ Idle.reset = 0
  BY SessionsAssumption DEF Idle, Request, Steps, Versions, OAuth

LEMMA FreshType == Fresh \in SessionRow /\ Fresh.state = "none" /\ Fresh.password = OAuth
  BY DEF Fresh, SessionRow, Versions, OAuth

LEMMA NoLockAtZero == ~EarnsLock(0)
  BY SessionsAssumption DEF EarnsLock

LEMMA ZeroFails == 0 \in 0 .. MaxFails /\ 1 \in Versions /\ 0 \in 0 .. MaxReset
  BY SessionsAssumption DEF Versions

(* One request moves, the others stay.                                     *)
LEMMA RequestMoves ==
  ASSUME request \in [Requests -> Request], NEW r \in Requests, NEW new \in Request,
         request' = [request EXCEPT ![r] = new]
  PROVE  /\ request' \in [Requests -> Request] /\ request'[r] = new
         /\ \A q \in Requests \ {r} : request'[q] = request[q]
  OBVIOUS

LEMMA RequestSteps ==
  ASSUME request \in [Requests -> Request], NEW r \in Requests, NEW step \in Steps, Goto(r, step)
  PROVE  /\ request' \in [Requests -> Request]
         /\ request'[r].step = step /\ request'[r].password = request[r].password
         /\ request'[r].fails = request[r].fails /\ request'[r].keep = request[r].keep
         /\ request'[r].reset = request[r].reset
         /\ \A q \in Requests \ {r} : request'[q] = request[q]
  <1> DEFINE new == [request[r] EXCEPT !.step = step]
  <1>1. /\ new \in Request /\ new.step = step /\ new.password = request[r].password
        /\ new.fails = request[r].fails /\ new.keep = request[r].keep /\ new.reset = request[r].reset
    BY DEF Request
  <1>2. request' = [request EXCEPT ![r] = new]
    BY DEF Goto
  <1> HIDE DEF new
  <1> QED BY <1>1, <1>2, RequestMoves

LEMMA RequestFinishes ==
  ASSUME request \in [Requests -> Request], NEW r \in Requests, Finish(r)
  PROVE  /\ request' \in [Requests -> Request] /\ request'[r] = Idle
         /\ \A q \in Requests \ {r} : request'[q] = request[q]
  BY IdleType, RequestMoves DEF Finish

(* Every session but the one to keep has ended.                            *)
LEMMA RevokedEnds ==
  ASSUME session \in [SessionIds -> SessionRow], NEW keep, session' = Revoked(keep)
  PROVE  /\ session' \in [SessionIds -> SessionRow]
         /\ \A s \in SessionIds : Refreshable(s)' => s = keep
  <1>1. \A s \in SessionIds : /\ [session[s] EXCEPT !.state = "revoked"] \in SessionRow
                              /\ [session[s] EXCEPT !.state = "revoked"].state = "revoked"
    BY DEF SessionRow
  <1> QED BY <1>1 DEF Revoked, Refreshable

LEMMA SessionsInit == Init => SessionsInv
  <1> SUFFICES ASSUME Init PROVE SessionsInv
    OBVIOUS
  <1>1. /\ request \in [Requests -> Request] /\ \A r \in Requests : request[r] = Idle
    BY IdleType DEF Init
  <1>2. session \in [SessionIds -> SessionRow] /\ \A s \in SessionIds : ~Refreshable(s)
    BY FreshType DEF Init, Refreshable
  <1>3. reset \in ResetRow /\ reset.id = 0 /\ ~reset.open
    BY SessionsAssumption DEF Init, ResetRow
  <1>4. TypeOK
    BY <1>1, <1>2, <1>3, IdleType, ZeroFails DEF Init, TypeOK
  <1>5. RequestsFit /\ ResetsFit /\ OldSessionsEnd /\ SpentStaysSpent
    BY <1>1, <1>2, <1>3, IdleType DEF Init, RequestsFit, ResetsFit, OldSessionsEnd, SpentStaysSpent, At
  <1>6. LockedAtThreshold
    BY NoLockAtZero DEF Init, LockedAtThreshold
  <1> QED BY <1>4, <1>5, <1>6 DEF SessionsInv

-----------------------------------------------------------------------------
(* A request that begins, or ends, and writes nothing but the counters.    *)
LEMMA RequestBegins ==
  ASSUME SessionsInv, NEW r \in Requests, request[r] = Idle, NEW new \in Request,
         request' = [request EXCEPT ![r] = new],
         new.step \in {"compare", "insert", "change"},
         UNCHANGED <<kind, password, session, reset, historyVars>>,
         fails' \in 0 .. MaxFails, locked' \in BOOLEAN, LockedAtThreshold'
  PROVE  SessionsInv'
  <1>1. /\ request' \in [Requests -> Request] /\ request'[r] = new
        /\ \A q \in Requests \ {r} : request'[q] = request[q]
    BY RequestMoves DEF SessionsInv, TypeOK
  <1>2. TypeOK'
    BY <1>1 DEF SessionsInv, TypeOK, historyVars
  <1>3. RequestsFit' /\ ResetsFit' /\ SpentStaysSpent'
    BY <1>1 DEF SessionsInv, RequestsFit, ResetsFit, SpentStaysSpent, At, historyVars
  <1>4. OldSessionsEnd'
    BY <1>1, IdleType DEF SessionsInv, OldSessionsEnd, Refreshable, At, historyVars
  <1> QED BY <1>2, <1>3, <1>4 DEF SessionsInv

LEMMA LoginReadStep ==
  ASSUME SessionsInv, NEW r \in Requests, LoginRead(r)
  PROVE  SessionsInv'
  <1> DEFINE new == [Idle EXCEPT !.step = "compare", !.password = password, !.fails = fails]
  <1>1. new \in Request /\ new.step = "compare"
    BY IdleType DEF SessionsInv, TypeOK, Request, Steps
  <1>2. /\ request[r] = Idle /\ request' = [request EXCEPT ![r] = new]
        /\ UNCHANGED <<kind, accountVars, session, reset, historyVars>>
    BY DEF LoginRead
  <1> HIDE DEF new
  <1>3. fails' \in 0 .. MaxFails /\ locked' \in BOOLEAN /\ LockedAtThreshold'
    BY <1>2 DEF SessionsInv, TypeOK, LockedAtThreshold, accountVars, historyVars
  <1> QED BY <1>1, <1>2, <1>3, RequestBegins DEF accountVars

(* A count that is written, however old, comes with the lock it earns.     *)
LEMMA LoginWrongStep ==
  ASSUME SessionsInv, NEW r \in Requests, LoginWrong(r)
  PROVE  SessionsInv'
  <1> DEFINE n == request[r].fails + 1
  <1>1. /\ fails' = n /\ locked' = (EarnsLock(n) \/ (kind = "customer" /\ locked))
        /\ expired' = (expired /\ ~EarnsLock(n))
        /\ request[r].fails < MaxFails /\ At(r, "compare") /\ Finish(r)
        /\ UNCHANGED <<kind, password, session, reset, excused, torn, spent>>
    BY DEF LoginWrong
  <1>2. /\ request' \in [Requests -> Request] /\ request'[r] = Idle
        /\ \A q \in Requests \ {r} : request'[q] = request[q]
    BY <1>1, RequestFinishes DEF SessionsInv, TypeOK
  <1>3. n \in 0 .. MaxFails
    BY <1>1, SessionsAssumption DEF SessionsInv, TypeOK, Request
  <1> HIDE DEF n
  <1>4. locked' \in BOOLEAN /\ expired' \in BOOLEAN
    BY <1>1 DEF EarnsLock
  <1>5. LockedAtThreshold'
    <2>1. EarnsLock(fails') => locked'
      BY <1>1
    <2>2. kind' = "admin" /\ locked' => EarnsLock(fails')
      BY <1>1
    <2> QED BY <2>1, <2>2 DEF LockedAtThreshold, EarnsLock
  <1>6. TypeOK'
    BY <1>1, <1>2, <1>3, <1>4, IdleType DEF SessionsInv, TypeOK
  <1>7. RequestsFit' /\ ResetsFit' /\ SpentStaysSpent'
    BY <1>1, <1>2, IdleType DEF SessionsInv, RequestsFit, ResetsFit, SpentStaysSpent, At
  <1>8. OldSessionsEnd'
    BY <1>1, <1>2 DEF SessionsInv, OldSessionsEnd, Refreshable, At
  <1> QED BY <1>5, <1>6, <1>7, <1>8 DEF SessionsInv

LEMMA LoginRightStep ==
  ASSUME SessionsInv, NEW r \in Requests, LoginRight(r)
  PROVE  SessionsInv'
  <1>1. /\ fails' = 0 /\ locked' = FALSE /\ At(r, "compare") /\ Goto(r, "insert")
        /\ UNCHANGED <<kind, password, session, reset, historyVars>>
    BY DEF LoginRight
  <1>2. /\ request' \in [Requests -> Request] /\ request'[r].step = "insert"
        /\ \A q \in Requests \ {r} : request'[q] = request[q]
    BY <1>1, RequestSteps DEF SessionsInv, TypeOK, Steps
  <1>3. TypeOK'
    BY <1>1, <1>2, ZeroFails DEF SessionsInv, TypeOK, historyVars
  <1>4. RequestsFit' /\ ResetsFit' /\ SpentStaysSpent'
    BY <1>1, <1>2 DEF SessionsInv, RequestsFit, ResetsFit, SpentStaysSpent, At, historyVars
  <1>5. OldSessionsEnd'
    BY <1>1, <1>2 DEF SessionsInv, OldSessionsEnd, Refreshable, At, historyVars
  <1>6. LockedAtThreshold'
    BY <1>1, NoLockAtZero DEF LockedAtThreshold, EarnsLock
  <1> QED BY <1>3, <1>4, <1>5, <1>6 DEF SessionsInv

LEMMA OAuthLoginStep ==
  ASSUME SessionsInv, NEW r \in Requests, OAuthLogin(r)
  PROVE  SessionsInv'
  <1> DEFINE new == [Idle EXCEPT !.step = "insert"]
  <1>1. new \in Request /\ new.step = "insert"
    BY IdleType DEF Request, Steps
  <1>2. /\ request[r] = Idle /\ request' = [request EXCEPT ![r] = new]
        /\ fails' = 0 /\ locked' = FALSE
        /\ UNCHANGED <<kind, password, session, reset, historyVars>>
    BY DEF OAuthLogin
  <1> HIDE DEF new
  <1>3. fails' \in 0 .. MaxFails /\ locked' \in BOOLEAN
    BY <1>2, ZeroFails
  <1>4. LockedAtThreshold'
    BY <1>2, NoLockAtZero DEF LockedAtThreshold, EarnsLock
  <1> QED BY <1>1, <1>2, <1>3, <1>4, RequestBegins

(* A session is opened with the present password, or it is excused.        *)
LEMMA GenerateTokenStep ==
  ASSUME SessionsInv, NEW r \in Requests, GenerateTokenAndSetCookie(r)
  PROVE  SessionsInv'
  <1> DEFINE p == request[r].password
  <1>1. PICK s \in SessionIds :
          /\ session[s] = Fresh
          /\ session' = [session EXCEPT ![s] = [state |-> "live", password |-> p]]
          /\ excused' = IF p \in {OAuth, password} THEN excused ELSE excused \cup {s}
    BY DEF GenerateTokenAndSetCookie
  <1>2. /\ At(r, "insert") /\ Finish(r)
        /\ UNCHANGED <<kind, accountVars, reset, expired, torn, spent>>
    BY DEF GenerateTokenAndSetCookie
  <1>3. /\ request' \in [Requests -> Request] /\ request'[r] = Idle
        /\ \A q \in Requests \ {r} : request'[q] = request[q]
    BY <1>2, RequestFinishes DEF SessionsInv, TypeOK
  <1> DEFINE new == [state |-> "live", password |-> p]
  <1>4. new \in SessionRow /\ new.password = p
    BY DEF SessionsInv, TypeOK, SessionRow, Request
  <1>5. session' = [session EXCEPT ![s] = new]
    BY <1>1
  <1> HIDE DEF new, p
  <1>6. /\ session' \in [SessionIds -> SessionRow] /\ session'[s].password = p
        /\ \A u \in SessionIds \ {s} : session'[u] = session[u]
    BY <1>4, <1>5 DEF SessionsInv, TypeOK
  <1>7. excused \subseteq excused' /\ excused' \subseteq SessionIds
    BY <1>1 DEF SessionsInv, TypeOK
  <1>8. TypeOK'
    BY <1>2, <1>3, <1>6, <1>7, IdleType DEF SessionsInv, TypeOK, accountVars
  <1>9. RequestsFit' /\ ResetsFit' /\ SpentStaysSpent'
    BY <1>2, <1>3, <1>7, IdleType DEF SessionsInv, RequestsFit, ResetsFit, SpentStaysSpent, At
  <1>10. OldSessionsEnd'
    <2> SUFFICES ASSUME NEW u \in SessionIds, Refreshable(u)',
                        ~(torn' \/ \E q \in Requests : At(q, "revoke")')
                 PROVE  session'[u].password \in {OAuth, password'} \/ u \in excused'
      BY DEF OldSessionsEnd
    <2>1. ~torn /\ ~\E q \in Requests : At(q, "revoke")
      BY <1>2, <1>3 DEF At
    <2>2. CASE u = s
      BY <1>1, <1>2, <1>6, <2>2 DEF accountVars
    <2>3. CASE u # s
      BY <1>2, <1>6, <1>7, <2>1, <2>3 DEF SessionsInv, OldSessionsEnd, Refreshable, accountVars
    <2> QED BY <2>2, <2>3
  <1>11. LockedAtThreshold'
    BY <1>2 DEF SessionsInv, LockedAtThreshold, accountVars
  <1> QED BY <1>8, <1>9, <1>10, <1>11 DEF SessionsInv

LEMMA LockExpiresStep == SessionsInv /\ LockExpires => SessionsInv'
  <1> SUFFICES ASSUME SessionsInv, LockExpires PROVE SessionsInv'
    OBVIOUS
  <1>1. TypeOK'
    BY DEF LockExpires, SessionsInv, TypeOK
  <1>2. RequestsFit' /\ ResetsFit' /\ OldSessionsEnd' /\ SpentStaysSpent'
    BY DEF LockExpires, SessionsInv, RequestsFit, ResetsFit, OldSessionsEnd, SpentStaysSpent, Refreshable, At
  <1>3. LockedAtThreshold'
    BY DEF LockExpires, LockedAtThreshold
  <1> QED BY <1>1, <1>2, <1>3 DEF SessionsInv

-----------------------------------------------------------------------------
LEMMA ChangeReadStep ==
  ASSUME SessionsInv, NEW r \in Requests, NEW keep \in SessionIds \cup {NoSession}, ChangeRead(r, keep)
  PROVE  SessionsInv'
  <1> DEFINE new == [Idle EXCEPT !.step = "change", !.password = password, !.keep = keep]
  <1>1. new \in Request /\ new.step = "change"
    BY IdleType DEF SessionsInv, TypeOK, Request, Steps
  <1>2. /\ request[r] = Idle /\ request' = [request EXCEPT ![r] = new]
        /\ UNCHANGED <<kind, accountVars, session, reset, historyVars>>
    BY DEF ChangeRead
  <1> HIDE DEF new
  <1>3. fails' \in 0 .. MaxFails /\ locked' \in BOOLEAN /\ LockedAtThreshold'
    BY <1>2 DEF SessionsInv, TypeOK, LockedAtThreshold, accountVars, historyVars
  <1> QED BY <1>1, <1>2, <1>3, RequestBegins DEF accountVars

LEMMA NextPassword ==
  ASSUME password \in Versions, password < MaxPassword, password' = password + 1
  PROVE  password' \in Versions
  BY SessionsAssumption DEF Versions

(* changePassword: everything in one transaction.                          *)
LEMMA ChangePasswordStep ==
  ASSUME SessionsInv, NEW r \in Requests, ChangePassword(r)
  PROVE  SessionsInv'
  <1> DEFINE keep == request[r].keep
  <1>1. /\ session' = Revoked(keep) /\ excused' = excused \cup ({keep} \ {NoSession}) /\ Finish(r)
        /\ kind = "admin" /\ At(r, "change") /\ password < MaxPassword /\ password' = password + 1
        /\ UNCHANGED <<kind, fails, locked, reset, expired, torn, spent>>
    BY DEF ChangePassword
  <1>2. /\ request' \in [Requests -> Request] /\ request'[r] = Idle
        /\ \A q \in Requests \ {r} : request'[q] = request[q]
    BY <1>1, RequestFinishes DEF SessionsInv, TypeOK
  <1>3. keep \in SessionIds \cup {NoSession}
    BY DEF SessionsInv, TypeOK, Request
  <1> HIDE DEF keep
  <1>4. session' \in [SessionIds -> SessionRow] /\ \A s \in SessionIds : Refreshable(s)' => s = keep
    BY <1>1, RevokedEnds DEF SessionsInv, TypeOK
  <1>5. password' \in Versions
    BY <1>1, NextPassword DEF SessionsInv, TypeOK
  <1>6. TypeOK'
    BY <1>1, <1>2, <1>3, <1>4, <1>5, IdleType DEF SessionsInv, TypeOK
  <1>7. RequestsFit' /\ ResetsFit' /\ SpentStaysSpent'
    BY <1>1, <1>2, IdleType DEF SessionsInv, RequestsFit, ResetsFit, SpentStaysSpent, At
  <1>8. OldSessionsEnd'
    BY <1>1, <1>4, SessionsAssumption DEF OldSessionsEnd
  <1>9. LockedAtThreshold'
    BY <1>1 DEF SessionsInv, LockedAtThreshold
  <1> QED BY <1>6, <1>7, <1>8, <1>9 DEF SessionsInv

(* A customer's password first ...                                         *)
LEMMA ChangePasswordCustomerStep ==
  ASSUME SessionsInv, NEW r \in Requests, ChangePasswordCustomer(r)
  PROVE  SessionsInv'
  <1> DEFINE keep == request[r].keep
  <1>1. /\ excused' = excused \cup ({keep} \ {NoSession}) /\ Goto(r, "revoke")
        /\ kind = "customer" /\ At(r, "change") /\ password < MaxPassword /\ password' = password + 1
        /\ UNCHANGED <<kind, fails, locked, session, reset, expired, torn, spent>>
    BY DEF ChangePasswordCustomer
  <1>2. /\ request' \in [Requests -> Request] /\ request'[r].step = "revoke" /\ request'[r].keep = keep
        /\ \A q \in Requests \ {r} : request'[q] = request[q]
    BY <1>1, RequestSteps DEF SessionsInv, TypeOK, Steps
  <1>3. keep \in SessionIds \cup {NoSession}
    BY DEF SessionsInv, TypeOK, Request
  <1> HIDE DEF keep
  <1>4. password' \in Versions
    BY <1>1, NextPassword DEF SessionsInv, TypeOK
  <1>5. TypeOK'
    BY <1>1, <1>2, <1>3, <1>4 DEF SessionsInv, TypeOK
  <1>6. RequestsFit'
    BY <1>1, <1>2, <1>3 DEF SessionsInv, RequestsFit, At
  <1>7. ResetsFit' /\ SpentStaysSpent' /\ LockedAtThreshold'
    BY <1>1 DEF SessionsInv, ResetsFit, SpentStaysSpent, LockedAtThreshold
  <1>8. OldSessionsEnd'
    BY <1>2 DEF OldSessionsEnd, At
  <1> QED BY <1>5, <1>6, <1>7, <1>8 DEF SessionsInv

(* ... then the sessions: the one that is kept has been excused.           *)
LEMMA RevokeSessionsStep ==
  ASSUME SessionsInv, NEW r \in Requests, RevokeSessions(r)
  PROVE  SessionsInv'
  <1> DEFINE keep == request[r].keep
  <1>1. /\ session' = Revoked(keep) /\ Finish(r) /\ At(r, "revoke")
        /\ UNCHANGED <<kind, accountVars, reset, historyVars>>
    BY DEF RevokeSessions
  <1>2. /\ request' \in [Requests -> Request] /\ request'[r] = Idle
        /\ \A q \in Requests \ {r} : request'[q] = request[q]
    BY <1>1, RequestFinishes DEF SessionsInv, TypeOK
  <1>3. keep \in {NoSession} \cup excused
    BY <1>1 DEF SessionsInv, RequestsFit
  <1> HIDE DEF keep
  <1>4. session' \in [SessionIds -> SessionRow] /\ \A s \in SessionIds : Refreshable(s)' => s = keep
    BY <1>1, RevokedEnds DEF SessionsInv, TypeOK
  <1>5. TypeOK'
    BY <1>1, <1>2, <1>4, IdleType DEF SessionsInv, TypeOK, accountVars, historyVars
  <1>6. RequestsFit' /\ ResetsFit' /\ SpentStaysSpent'
    BY <1>1, <1>2, IdleType DEF SessionsInv, RequestsFit, ResetsFit, SpentStaysSpent, At, historyVars
  <1>7. OldSessionsEnd'
    BY <1>1, <1>3, <1>4, SessionsAssumption DEF OldSessionsEnd, historyVars
  <1>8. LockedAtThreshold'
    BY <1>1 DEF SessionsInv, LockedAtThreshold, accountVars, historyVars
  <1> QED BY <1>5, <1>6, <1>7, <1>8 DEF SessionsInv

-----------------------------------------------------------------------------
(* A new link or code is none that was ever used.                          *)
LEMMA ForgotPasswordStep == SessionsInv /\ ForgotPassword => SessionsInv'
  <1> SUFFICES ASSUME SessionsInv, ForgotPassword PROVE SessionsInv'
    OBVIOUS
  <1>1. /\ reset.id < MaxReset /\ reset' = [id |-> reset.id + 1, open |-> TRUE]
        /\ UNCHANGED <<kind, accountVars, session, request, historyVars>>
    BY DEF ForgotPassword
  <1>2. reset.id \in 0 .. MaxReset /\ reset'.id = reset.id + 1
    BY <1>1 DEF SessionsInv, TypeOK, ResetRow
  <1>3. reset' \in ResetRow
    BY <1>1, <1>2, SessionsAssumption DEF ResetRow
  <1>4. TypeOK'
    BY <1>1, <1>3 DEF SessionsInv, TypeOK, accountVars, historyVars
  <1>5. ASSUME NEW n \in 1 .. reset.id PROVE n \in 1 .. reset'.id /\ n # reset'.id
    BY <1>2, SessionsAssumption
  <1>6. RequestsFit'
    <2>1. \A q \in Requests : At(q, "use") \/ At(q, "set") =>
            request[q].reset \in 1 .. reset'.id /\ request[q].reset # reset'.id
      BY <1>5 DEF SessionsInv, RequestsFit
    <2> QED BY <1>1, <2>1 DEF SessionsInv, RequestsFit, At, historyVars
  <1>7. ResetsFit' /\ SpentStaysSpent'
    <2>1. spent \subseteq 1 .. reset'.id /\ reset'.id \notin spent
      BY <1>5 DEF SessionsInv, ResetsFit
    <2>2. reset'.id >= 1
      BY <1>2, SessionsAssumption
    <2> QED BY <1>1, <2>1, <2>2 DEF ResetsFit, SpentStaysSpent, historyVars
  <1>8. OldSessionsEnd' /\ LockedAtThreshold'
    BY <1>1 DEF SessionsInv, OldSessionsEnd, LockedAtThreshold, Refreshable, At, accountVars, historyVars
  <1> QED BY <1>4, <1>6, <1>7, <1>8 DEF SessionsInv

(* A link that closes stays the same link.                                 *)
LEMMA ResetCloses ==
  ASSUME SessionsInv, reset' = [reset EXCEPT !.open = FALSE]
  PROVE  reset' \in ResetRow /\ reset'.id = reset.id /\ ~reset'.open
  BY DEF SessionsInv, TypeOK, ResetRow

LEMMA ResetExpiresStep == SessionsInv /\ ResetExpires => SessionsInv'
  <1> SUFFICES ASSUME SessionsInv, ResetExpires PROVE SessionsInv'
    OBVIOUS
  <1>1. /\ reset' = [reset EXCEPT !.open = FALSE]
        /\ UNCHANGED <<kind, accountVars, session, request, historyVars>>
    BY DEF ResetExpires
  <1>2. reset' \in ResetRow /\ reset'.id = reset.id /\ ~reset'.open
    BY <1>1, ResetCloses
  <1>3. TypeOK'
    BY <1>1, <1>2 DEF SessionsInv, TypeOK, accountVars, historyVars
  <1>4. RequestsFit' /\ ResetsFit' /\ SpentStaysSpent'
    BY <1>1, <1>2 DEF SessionsInv, RequestsFit, ResetsFit, SpentStaysSpent, At, historyVars
  <1>5. OldSessionsEnd' /\ LockedAtThreshold'
    BY <1>1 DEF SessionsInv, OldSessionsEnd, LockedAtThreshold, Refreshable, At, accountVars, historyVars
  <1> QED BY <1>3, <1>4, <1>5 DEF SessionsInv

LEMMA ResetReadStep ==
  ASSUME SessionsInv, NEW r \in Requests, ResetRead(r)
  PROVE  SessionsInv'
  <1> DEFINE step == IF kind = "admin" THEN "set" ELSE "use"
             new == [Idle EXCEPT !.step = step, !.password = password, !.reset = reset.id]
  <1>1. /\ step \in Steps /\ step \in {"set", "use"} /\ (step = "set" <=> kind = "admin")
        /\ reset.open /\ request[r] = Idle /\ request' = [request EXCEPT ![r] = new]
        /\ UNCHANGED <<kind, accountVars, session, reset, historyVars>>
    BY DEF ResetRead, Steps
  <1> HIDE DEF step
  <1>2. /\ new \in Request /\ new.step = step /\ new.reset = reset.id /\ new.keep = NoSession
    BY <1>1, IdleType DEF SessionsInv, TypeOK, Request, ResetRow
  <1> HIDE DEF new
  <1>3. /\ request' \in [Requests -> Request] /\ request'[r] = new
        /\ \A q \in Requests \ {r} : request'[q] = request[q]
    BY <1>1, <1>2, RequestMoves DEF SessionsInv, TypeOK
  <1>4. TypeOK'
    BY <1>1, <1>2, <1>3 DEF SessionsInv, TypeOK, accountVars, historyVars
  <1>5. reset.id \in 1 .. reset.id
    BY <1>1 DEF SessionsInv, ResetsFit, TypeOK, ResetRow
  <1>6. RequestsFit'
    BY <1>1, <1>2, <1>3, <1>5 DEF SessionsInv, RequestsFit, At, historyVars, TypeOK
  <1>7. ResetsFit' /\ SpentStaysSpent' /\ LockedAtThreshold'
    BY <1>1 DEF SessionsInv, ResetsFit, SpentStaysSpent, LockedAtThreshold, accountVars, historyVars
  <1>8. OldSessionsEnd'
    BY <1>1, <1>3, IdleType DEF SessionsInv, OldSessionsEnd, Refreshable, At, accountVars, historyVars
  <1> QED BY <1>4, <1>6, <1>7, <1>8 DEF SessionsInv

(* The token that was read is closed, or has been replaced.                *)
LEMMA ResetClosedCloses ==
  ASSUME SessionsInv, NEW id, reset' = ResetClosed(id)
  PROVE  /\ reset' \in ResetRow /\ reset'.id = reset.id
         /\ reset'.open => reset.open /\ reset.id # id
  BY DEF SessionsInv, TypeOK, ResetRow, ResetClosed

LEMMA ResetPasswordStep ==
  ASSUME SessionsInv, NEW r \in Requests, ResetPassword(r)
  PROVE  SessionsInv'
  <1> DEFINE id == request[r].reset
  <1>1. /\ session' = Revoked(NoSession) /\ reset' = ResetClosed(id) /\ spent' = spent \cup {id}
        /\ kind = "admin" /\ At(r, "set") /\ password < MaxPassword /\ password' = password + 1
        /\ Finish(r) /\ UNCHANGED <<kind, fails, locked, expired, excused, torn>>
    BY DEF ResetPassword
  <1>2. /\ request' \in [Requests -> Request] /\ request'[r] = Idle
        /\ \A q \in Requests \ {r} : request'[q] = request[q]
    BY <1>1, RequestFinishes DEF SessionsInv, TypeOK
  <1>3. id \in 1 .. reset.id /\ id \in 0 .. MaxReset
    BY <1>1 DEF SessionsInv, RequestsFit, TypeOK, Request
  <1> HIDE DEF id
  <1>4. /\ reset' \in ResetRow /\ reset'.id = reset.id
        /\ reset'.open => reset.open /\ reset.id # id
    BY <1>1, ResetClosedCloses
  <1>5. session' \in [SessionIds -> SessionRow] /\ \A s \in SessionIds : ~Refreshable(s)'
    BY <1>1, RevokedEnds, SessionsAssumption DEF SessionsInv, TypeOK
  <1>6. password' \in Versions
    BY <1>1, NextPassword DEF SessionsInv, TypeOK
  <1>7. id \in 1 .. MaxReset
    BY <1>3
  <1>8. TypeOK'
    BY <1>1, <1>2, <1>4, <1>5, <1>6, <1>7, IdleType DEF SessionsInv, TypeOK
  <1>9. RequestsFit'
    BY <1>1, <1>2, <1>4, IdleType DEF SessionsInv, RequestsFit, At
  <1>10. ResetsFit' /\ SpentStaysSpent'
    BY <1>1, <1>3, <1>4 DEF SessionsInv, ResetsFit, SpentStaysSpent
  <1>11. OldSessionsEnd' /\ LockedAtThreshold'
    BY <1>1, <1>5 DEF SessionsInv, OldSessionsEnd, LockedAtThreshold
  <1> QED BY <1>8, <1>9, <1>10, <1>11 DEF SessionsInv

(* The code there is now is marked, and none is spent before that.         *)
LEMMA UseResetCodeStep ==
  ASSUME SessionsInv, NEW r \in Requests, UseResetCode(r)
  PROVE  SessionsInv'
  <1>1. /\ reset' = [reset EXCEPT !.open = FALSE] /\ At(r, "use") /\ Goto(r, "set")
        /\ UNCHANGED <<kind, accountVars, session, historyVars>>
    BY DEF UseResetCode
  <1>2. /\ request' \in [Requests -> Request] /\ request'[r].step = "set"
        /\ request'[r].reset = request[r].reset /\ request'[r].keep = request[r].keep
        /\ \A q \in Requests \ {r} : request'[q] = request[q]
    BY <1>1, RequestSteps DEF SessionsInv, TypeOK, Steps
  <1>3. reset' \in ResetRow /\ reset'.id = reset.id /\ ~reset'.open
    BY <1>1, ResetCloses
  <1>4. TypeOK'
    BY <1>1, <1>2, <1>3 DEF SessionsInv, TypeOK, accountVars, historyVars
  <1>5. RequestsFit' /\ ResetsFit' /\ SpentStaysSpent'
    BY <1>1, <1>2, <1>3 DEF SessionsInv, RequestsFit, ResetsFit, SpentStaysSpent, At, historyVars
  <1>6. OldSessionsEnd'
    BY <1>1, <1>2 DEF SessionsInv, OldSessionsEnd, Refreshable, At, accountVars, historyVars
  <1>7. LockedAtThreshold'
    BY <1>1 DEF SessionsInv, LockedAtThreshold, accountVars, historyVars
  <1> QED BY <1>4, <1>5, <1>6, <1>7 DEF SessionsInv

LEMMA ResetPasswordCustomerStep ==
  ASSUME SessionsInv, NEW r \in Requests, ResetPasswordCustomer(r)
  PROVE  SessionsInv'
  <1> DEFINE id == request[r].reset
  <1>1. /\ fails' = 0 /\ locked' = FALSE /\ spent' = spent \cup {id} /\ Goto(r, "revoke")
        /\ kind = "customer" /\ At(r, "set") /\ password < MaxPassword /\ password' = password + 1
        /\ UNCHANGED <<kind, session, reset, expired, excused, torn>>
    BY DEF ResetPasswordCustomer
  <1>2. /\ request' \in [Requests -> Request] /\ request'[r].step = "revoke"
        /\ request'[r].keep = request[r].keep
        /\ \A q \in Requests \ {r} : request'[q] = request[q]
    BY <1>1, RequestSteps DEF SessionsInv, TypeOK, Steps
  <1>3. /\ id \in 1 .. reset.id /\ id \in 0 .. MaxReset /\ request[r].keep = NoSession
        /\ reset.open => reset.id # id
    BY <1>1 DEF SessionsInv, RequestsFit, TypeOK, Request
  <1> HIDE DEF id
  <1>4. password' \in Versions /\ id \in 1 .. MaxReset
    BY <1>1, <1>3, NextPassword DEF SessionsInv, TypeOK
  <1>5. TypeOK'
    BY <1>1, <1>2, <1>4, ZeroFails DEF SessionsInv, TypeOK
  <1>6. RequestsFit'
    BY <1>1, <1>2, <1>3 DEF SessionsInv, RequestsFit, At
  <1>7. ResetsFit' /\ SpentStaysSpent'
    BY <1>1, <1>3 DEF SessionsInv, ResetsFit, SpentStaysSpent
  <1>8. OldSessionsEnd'
    BY <1>2 DEF OldSessionsEnd, At
  <1>9. LockedAtThreshold'
    BY <1>1, NoLockAtZero DEF LockedAtThreshold, EarnsLock
  <1> QED BY <1>5, <1>6, <1>7, <1>8, <1>9 DEF SessionsInv

-----------------------------------------------------------------------------
(* Fewer sessions, nothing else.                                           *)
LEMMA FewerSessions ==
  ASSUME SessionsInv, session' \in [SessionIds -> SessionRow],
         \A s \in SessionIds : Refreshable(s)' => session'[s] = session[s],
         UNCHANGED <<kind, accountVars, reset, request, historyVars>>
  PROVE  SessionsInv'
  <1>1. TypeOK'
    BY DEF SessionsInv, TypeOK, accountVars, historyVars
  <1>2. RequestsFit' /\ ResetsFit' /\ SpentStaysSpent' /\ LockedAtThreshold'
    BY DEF SessionsInv, RequestsFit, ResetsFit, SpentStaysSpent, LockedAtThreshold, At, accountVars, historyVars
  <1>3. OldSessionsEnd'
    BY DEF SessionsInv, OldSessionsEnd, Refreshable, At, accountVars, historyVars
  <1> QED BY <1>1, <1>2, <1>3 DEF SessionsInv

LEMMA LogoutStep ==
  ASSUME SessionsInv, NEW s \in SessionIds, Logout(s)
  PROVE  SessionsInv'
  <1> DEFINE new == [session[s] EXCEPT !.state = "revoked"]
  <1>1. new \in SessionRow /\ new.state = "revoked"
    BY DEF SessionsInv, TypeOK, SessionRow
  <1>2. session' = [session EXCEPT ![s] = new] /\ UNCHANGED <<kind, accountVars, reset, request, historyVars>>
    BY DEF Logout
  <1> HIDE DEF new
  <1>3. /\ session' \in [SessionIds -> SessionRow]
        /\ \A u \in SessionIds : Refreshable(u)' => session'[u] = session[u]
    BY <1>1, <1>2 DEF SessionsInv, TypeOK, Refreshable
  <1> QED BY <1>2, <1>3, FewerSessions

LEMMA LogoutAllStep == SessionsInv /\ LogoutAllDevices => SessionsInv'
  <1> SUFFICES ASSUME SessionsInv, LogoutAllDevices PROVE SessionsInv'
    OBVIOUS
  <1>1. session' \in [SessionIds -> SessionRow] /\ \A s \in SessionIds : ~Refreshable(s)'
    BY RevokedEnds, SessionsAssumption DEF LogoutAllDevices, SessionsInv, TypeOK
  <1> QED BY <1>1, FewerSessions DEF LogoutAllDevices

LEMMA RequestFailsStep ==
  ASSUME SessionsInv, NEW r \in Requests, RequestFails(r)
  PROVE  SessionsInv'
  <1>1. /\ torn' = (torn \/ At(r, "revoke")) /\ Finish(r)
        /\ UNCHANGED <<kind, accountVars, session, reset, expired, excused, spent>>
    BY DEF RequestFails
  <1>2. /\ request' \in [Requests -> Request] /\ request'[r] = Idle
        /\ \A q \in Requests \ {r} : request'[q] = request[q]
    BY <1>1, RequestFinishes DEF SessionsInv, TypeOK
  <1>3. torn' \in BOOLEAN
    BY <1>1 DEF At
  <1>4. TypeOK'
    BY <1>1, <1>2, <1>3, IdleType DEF SessionsInv, TypeOK, accountVars
  <1>5. RequestsFit' /\ ResetsFit' /\ SpentStaysSpent' /\ LockedAtThreshold'
    BY <1>1, <1>2, IdleType DEF SessionsInv, RequestsFit, ResetsFit, SpentStaysSpent, LockedAtThreshold,
                                At, accountVars
  <1>6. OldSessionsEnd'
    <2>1. (torn \/ \E q \in Requests : At(q, "revoke")) => torn' \/ \E q \in Requests : At(q, "revoke")'
      BY <1>1, <1>2 DEF At
    <2> QED BY <1>1, <2>1 DEF SessionsInv, OldSessionsEnd, Refreshable, accountVars
  <1> QED BY <1>4, <1>5, <1>6 DEF SessionsInv

LEMMA SessionsStep == SessionsInv /\ [Next]_vars => SessionsInv'
  <1> SUFFICES ASSUME SessionsInv, [Next]_vars PROVE SessionsInv'
    OBVIOUS
  <1>1. ASSUME NEW r \in Requests, Handle(r) PROVE SessionsInv'
    <2>1. CASE LoginRead(r) \/ LoginWrong(r) \/ LoginRight(r) \/ OAuthLogin(r)
      BY <2>1, LoginReadStep, LoginWrongStep, LoginRightStep, OAuthLoginStep
    <2>2. CASE GenerateTokenAndSetCookie(r) \/ \E keep \in SessionIds \cup {NoSession} : ChangeRead(r, keep)
      BY <2>2, GenerateTokenStep, ChangeReadStep
    <2>3. CASE ChangePassword(r) \/ ChangePasswordCustomer(r) \/ RevokeSessions(r)
      BY <2>3, ChangePasswordStep, ChangePasswordCustomerStep, RevokeSessionsStep
    <2>4. CASE ResetRead(r) \/ ResetPassword(r) \/ UseResetCode(r) \/ ResetPasswordCustomer(r)
      BY <2>4, ResetReadStep, ResetPasswordStep, UseResetCodeStep, ResetPasswordCustomerStep
    <2>5. CASE RequestFails(r)
      BY <2>5, RequestFailsStep
    <2> QED BY <1>1, <2>1, <2>2, <2>3, <2>4, <2>5 DEF Handle, LoginCinemaAdmin, LoginCustomer
  <1>2. CASE (\E s \in SessionIds : Logout(s)) \/ LogoutAllDevices
    BY <1>2, LogoutStep, LogoutAllStep
  <1>3. CASE LockExpires \/ ForgotPassword \/ ResetExpires
    BY <1>3, LockExpiresStep, ForgotPasswordStep, ResetExpiresStep
  <1>4. CASE UNCHANGED vars
    <2>1. UNCHANGED <<kind, accountVars, session, reset, request, historyVars>>
      BY <1>4 DEF vars, accountVars, historyVars
    <2>2. session' \in [SessionIds -> SessionRow]
      BY <2>1 DEF SessionsInv, TypeOK
    <2> QED BY <2>1, <2>2, FewerSessions
  <1> QED BY <1>1, <1>2, <1>3, <1>4 DEF Next

LEMMA SessionsInvariant == Spec => []SessionsInv
  BY SessionsInit, SessionsStep, PTL DEF Spec

-----------------------------------------------------------------------------
(* Accounts, sessions and requests keep their types.                       *)
THEOREM SessionsTypeCorrect == Spec => []TypeOK
  <1>1. SessionsInv => TypeOK
    BY DEF SessionsInv
  <1> QED BY <1>1, SessionsInvariant, PTL

(* A changed or reset password ends the sessions of the old one, except    *)
(* those the changing request kept, those a sign-in still opens, and those *)
(* a customer's revocation has not reached or never will.                  *)
THEOREM ChangedPasswordEndsSessions == Spec => []OldSessionsEnd
  <1>1. SessionsInv => OldSessionsEnd
    BY DEF SessionsInv
  <1> QED BY <1>1, SessionsInvariant, PTL

(* However stale the count a sign-in writes, it comes with its lock.       *)
THEOREM EarnedLockIsSet == Spec => []LockedAtThreshold
  <1>1. SessionsInv => LockedAtThreshold
    BY DEF SessionsInv
  <1> QED BY <1>1, SessionsInvariant, PTL

(* A reset link or code that has set a password is never open again.       *)
THEOREM SpentResetStaysClosed == Spec => []SpentStaysSpent
  <1>1. SessionsInv => SpentStaysSpent
    BY DEF SessionsInv
  <1> QED BY <1>1, SessionsInvariant, PTL
=============================================================================
