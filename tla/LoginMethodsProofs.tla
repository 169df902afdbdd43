-------------------------- MODULE LoginMethodsProofs --------------------------
(***************************************************************************)
(* Proofs about LoginMethods, for any set of providers and any number of   *)
(* requests.                                                               *)
(*                                                                         *)
(* Requests write back what they read, so the inductive invariant is about *)
(* the rows they remember (SeenFits): an account never loses its password  *)
(* or its row, hence a remembered row without a password is as good as the *)
(* one on record, and a remembered row of an unlinking has something left  *)
(* without the provider.                                                   *)
(***************************************************************************)
EXTENDS LoginMethods, TLAPS

Agree(row) == ~row.password => row.ids = row.providers \ {"local"}

SeenFits ==
  \A r \in Requests :
    /\ Seen(r) # NoAccount => Exists /\ (Seen(r).password => account.password) /\ Agree(Seen(r))
    /\ request[r].op \in {"link", "unlink", "setPassword"} => Seen(r) # NoAccount
    /\ request[r].op \in {"login", "link", "unlink"} => Provider(r) \in Providers
    /\ request[r].op = "unlink" =>
         Seen(r).password \/ Seen(r).providers \ {Provider(r), "local"} # {}

LoginInv == TypeOK /\ SeenFits /\ PasswordlessColumnsAgree /\ KeepsALoginMethod

(* The rows the handlers insert, and those they write over one that is     *)
(* there.                                                                  *)
LEMMA RowTypes ==
  /\ \A b \in BOOLEAN : LocalRow(b) \in Row
  /\ InvitedRow \in Row
  /\ \A p \in Providers : OAuthRow(p) \in Row
  BY DEF LocalRow, InvitedRow, OAuthRow, Row, Methods

LEMMA ColumnTypes ==
  ASSUME account \in Row, NEW P \in SUBSET Methods, NEW I \in SUBSET Providers
  PROVE  /\ WithMethods(P, I) \in Row
         /\ WithMethods(P, I).password = account.password
         /\ WithMethods(P, I).providers = P /\ WithMethods(P, I).ids = I
  BY DEF WithMethods, Row

LEMMA LoginInit == Init => LoginInv
  <1> SUFFICES ASSUME Init PROVE LoginInv
    OBVIOUS
  <1>1. Idle \in Request /\ Idle.seen = NoAccount /\ Idle.op = "idle"
    BY DEF Idle, Request, Ops
  <1> QED
    BY <1>1 DEF Init, LoginInv, TypeOK, SeenFits, PasswordlessColumnsAgree, KeepsALoginMethod,
                Exists, Seen, Provider

(* A request that reads the row, or ends, with the account as it was.      *)
LEMMA ReadStep ==
  ASSUME LoginInv, NEW r \in Requests, NEW op \in Ops, NEW p \in Providers \cup {NoProvider},
         Read(r, op, p),
         op \notin {"idle", "register", "login"} => Exists,
         op \in {"login", "link", "unlink"} => p \in Providers,
         op = "unlink" => MayUnlink(p)
  PROVE  LoginInv'
  <1> DEFINE new == [op |-> op, provider |-> p, seen |-> account]
  <1>1. request' = [request EXCEPT ![r] = new] /\ UNCHANGED <<kind, account, tokens, lost>>
    BY DEF Read
  <1>2. new \in Request
    BY DEF Request, LoginInv, TypeOK
  <1>3. request' \in [Requests -> Request] /\ \A q \in Requests : request'[q] = IF q = r THEN new ELSE request[q]
    BY <1>1, <1>2 DEF LoginInv, TypeOK
  <1>4. TypeOK'
    BY <1>1, <1>3 DEF LoginInv, TypeOK, Exists
  <1>5. Exists => Agree(account)
    BY DEF LoginInv, PasswordlessColumnsAgree, Agree
  <1>6. op = "unlink" => account.password \/ account.providers \ {p, "local"} # {}
    BY DEF MayUnlink
  <1>7. SeenFits'
    BY <1>1, <1>3, <1>5, <1>6 DEF LoginInv, SeenFits, Seen, Provider, Exists, Agree
  <1> QED BY <1>1, <1>4, <1>7 DEF LoginInv, PasswordlessColumnsAgree, KeepsALoginMethod, Exists

(* A write: the new row keeps the password, and its columns agree; the     *)
(* request that wrote it is done.                                          *)
LEMMA WriteStep ==
  ASSUME LoginInv,
         account' \in Row \cup {NoAccount},
         Exists => Exists' /\ (account.password => account'.password),
         Exists' => Agree(account'),
         Exists' => account'.password \/ account'.ids # {} \/ "team_invite" \in tokens' \/ lost',
         tokens' \subseteq Purposes, tokens' # {} => Exists', lost' \in BOOLEAN, kind' = kind,
         \A q \in Requests : \/ request'[q] \in {request[q], Idle}
                             \/ request'[q] = [request[q] EXCEPT !.op = "token"] /\ Exists',
         request' \in [Requests -> Request]
  PROVE  LoginInv'
  <1>1. Idle.op = "idle" /\ Idle.seen = NoAccount
    BY DEF Idle
  <1>2. \A q \in Requests :
          /\ request'[q].seen # NoAccount => request'[q].seen = request[q].seen
          /\ request'[q].op \in {"idle", "token"} \/ request'[q] = request[q]
          /\ request'[q].op = "token" => Exists' \/ request'[q] = request[q]
    <2> SUFFICES ASSUME NEW q \in Requests
                 PROVE  /\ request'[q].seen # NoAccount => request'[q].seen = request[q].seen
                        /\ request'[q].op \in {"idle", "token"} \/ request'[q] = request[q]
                        /\ request'[q].op = "token" => Exists' \/ request'[q] = request[q]
      OBVIOUS
    <2>1. CASE request'[q] \in {request[q], Idle}
      BY <1>1, <2>1
    <2>2. CASE request'[q] = [request[q] EXCEPT !.op = "token"] /\ Exists'
      BY <2>2 DEF LoginInv, TypeOK, Request
    <2> QED BY <2>1, <2>2
  <1>3. TypeOK'
    BY <1>2 DEF LoginInv, TypeOK, Exists
  <1>4. SeenFits'
    BY <1>2 DEF LoginInv, SeenFits, Seen, Provider, Exists, Agree
  <1> QED BY <1>3, <1>4 DEF LoginInv, PasswordlessColumnsAgree, KeepsALoginMethod, Agree

(* Ending one request. *)
LEMMA FinishTypes ==
  ASSUME LoginInv, NEW r \in Requests, Finish(r)
  PROVE  request' \in [Requests -> Request] /\ \A q \in Requests : request'[q] \in {request[q], Idle}
  BY DEF Finish, LoginInv, TypeOK, Idle, Request, Ops

(* What the invariant says of the account. *)
LEMMA AccountFacts ==
  ASSUME LoginInv
  PROVE  /\ Exists => account \in Row /\ Agree(account)
         /\ account \in Row => Exists
         /\ Exists => account.password \/ account.ids # {} \/ "team_invite" \in tokens \/ lost
  BY LoginAssumption DEF LoginInv, TypeOK, Exists, Agree, PasswordlessColumnsAgree, KeepsALoginMethod

(* A new account, with a password, a provider or an invitation. *)
LEMMA NewAccounts ==
  ASSUME NEW row, \/ \E b \in BOOLEAN : row = LocalRow(b)
                  \/ \E p \in Providers : row = OAuthRow(p)
                  \/ row = InvitedRow
  PROVE  /\ row \in Row /\ row # NoAccount /\ Agree(row)
         /\ row.password \/ row.ids # {} \/ row = InvitedRow
  <1>1. row \in Row
    BY RowTypes
  <1>2. row # NoAccount
    BY <1>1, LoginAssumption
  <1>3. ASSUME NEW b, row = LocalRow(b)
        PROVE  Agree(row) /\ row.password
    BY <1>3 DEF Agree, LocalRow
  <1>4. ASSUME NEW p \in Providers, row = OAuthRow(p)
        PROVE  Agree(row) /\ row.ids # {}
    BY <1>4, LoginAssumption DEF Agree, OAuthRow
  <1>5. ASSUME row = InvitedRow
        PROVE  Agree(row)
    BY <1>5 DEF Agree, InvitedRow
  <1> QED BY <1>1, <1>2, <1>3, <1>4, <1>5

LEMMA RegisterStep ==
  ASSUME LoginInv, NEW r \in Requests, RegisterCinemaAdmin(r) \/ RegisterCustomer(r)
  PROVE  LoginInv'
  <1>1. CASE RegisterRead(r)
    BY <1>1, ReadStep DEF RegisterRead, Ops
  <1>2. CASE RegisterInsert(r)
    <2>1. /\ UNCHANGED <<kind, tokens, lost>>
          /\ \/ account' = account /\ Exists
             \/ account' = LocalRow(FALSE) /\ ~Exists
          /\ \/ Finish(r)
             \/ account' = LocalRow(FALSE) /\ request' = [request EXCEPT ![r].op = "token"]
      BY <1>2 DEF RegisterInsert
    <2>2. LocalRow(FALSE) \in Row /\ LocalRow(FALSE).password /\ LocalRow(FALSE) # NoAccount
          /\ Agree(LocalRow(FALSE))
      BY NewAccounts DEF LocalRow
    <2>3. /\ request' \in [Requests -> Request]
          /\ \A q \in Requests : \/ request'[q] \in {request[q], Idle}
                                 \/ request'[q] = [request[q] EXCEPT !.op = "token"] /\ Exists'
      <3>1. CASE Finish(r)
        BY <3>1, FinishTypes
      <3>2. CASE account' = LocalRow(FALSE) /\ request' = [request EXCEPT ![r].op = "token"]
        BY <3>2, <2>2 DEF LoginInv, TypeOK, Request, Ops, Exists
      <3> QED BY <2>1, <3>1, <3>2
    <2>4. tokens \subseteq Purposes /\ lost \in BOOLEAN /\ (tokens # {} => Exists)
      BY DEF LoginInv, TypeOK
    <2>5. Exists' /\ account' \in Row /\ Agree(account')
      BY <2>1, <2>2, AccountFacts DEF Exists
    <2>6. Exists => (account.password => account'.password)
      BY <2>1
    <2>7. account'.password \/ account'.ids # {} \/ "team_invite" \in tokens' \/ lost'
      BY <2>1, <2>2, AccountFacts
    <2> QED BY <2>1, <2>3, <2>4, <2>5, <2>6, <2>7, WriteStep
  <1>3. CASE RegisterToken(r)
    <2>1. /\ Finish(r) /\ UNCHANGED <<kind, account, lost>> /\ Exists
          /\ tokens' = tokens \cup {"email_verification"}
      BY <1>3 DEF RegisterToken, Writes, LoginInv, TypeOK
    <2>2. tokens' \subseteq Purposes /\ lost' \in BOOLEAN
      BY <2>1 DEF LoginInv, TypeOK, Purposes
    <2> QED BY <2>1, <2>2, WriteStep, FinishTypes, AccountFacts DEF Exists, Agree
  <1> QED BY <1>1, <1>2, <1>3 DEF RegisterCinemaAdmin, RegisterCustomer

(* Signing in with a provider, and linking one, add it to both columns of  *)
(* the row that was read.                                                  *)
LEMMA AddProvider ==
  ASSUME LoginInv, NEW r \in Requests, Finish(r), UNCHANGED <<kind, tokens, lost>>,
         Seen(r) # NoAccount, Provider(r) \in Providers,
         NEW row,
         row = WithMethods(Seen(r).providers \cup {Provider(r)}, Seen(r).ids \cup {Provider(r)}),
         account' = row \/ account' = [row EXCEPT !.verified = TRUE]
  PROVE  LoginInv'
  <1>1. /\ Exists /\ account \in Row /\ Seen(r) \in Row /\ Agree(Seen(r))
        /\ Seen(r).password => account.password
    BY AccountFacts DEF LoginInv, SeenFits, TypeOK, Request, Seen
  <1>2. /\ Seen(r).providers \cup {Provider(r)} \in SUBSET Methods
        /\ Seen(r).ids \cup {Provider(r)} \in SUBSET Providers
    BY <1>1 DEF Row, Methods
  <1>3. /\ row \in Row /\ row.password = account.password
        /\ row.providers = Seen(r).providers \cup {Provider(r)}
        /\ row.ids = Seen(r).ids \cup {Provider(r)}
    BY <1>1, <1>2, ColumnTypes
  <1>4. Agree(row)
    BY <1>1, <1>3, LoginAssumption DEF Agree
  <1>5. /\ account' \in Row /\ account'.password = row.password
        /\ account'.providers = row.providers /\ account'.ids = row.ids
    BY <1>3 DEF Row
  <1>6. Exists' /\ Agree(account') /\ account'.ids # {}
    BY <1>3, <1>4, <1>5, LoginAssumption DEF Exists, Agree
  <1>7. tokens \subseteq Purposes /\ lost \in BOOLEAN /\ kind' = kind
    BY DEF LoginInv, TypeOK
  <1> QED BY <1>3, <1>5, <1>6, <1>7, FinishTypes, WriteStep

LEMMA OAuthStep ==
  ASSUME LoginInv, NEW r \in Requests, NEW p \in Providers, OAuthLogin(r, p)
  PROVE  LoginInv'
  <1>1. CASE OAuthLoginRead(r, p)
    BY <1>1, ReadStep DEF OAuthLoginRead, Ops
  <1>2. CASE Provider(r) = p /\ OAuthLoginWrite(r)
    <2>1. Finish(r) /\ UNCHANGED <<kind, tokens, lost>>
      BY <1>2 DEF OAuthLoginWrite
    <2>2. CASE Seen(r) # NoAccount
      BY <1>2, <2>1, <2>2, AddProvider DEF OAuthLoginWrite
    <2>3. CASE Seen(r) = NoAccount
      <3>1. account' = IF Exists THEN account ELSE OAuthRow(p)
        BY <1>2, <2>3 DEF OAuthLoginWrite
      <3>2. OAuthRow(p) \in Row /\ Agree(OAuthRow(p)) /\ OAuthRow(p).ids # {}
        BY NewAccounts, RowTypes DEF OAuthRow
      <3>3. account' \in Row /\ Agree(account')
        BY <3>1, <3>2, AccountFacts
      <3>4. Exists'
        BY <3>3, LoginAssumption DEF Exists
      <3>5. account'.password \/ account'.ids # {} \/ "team_invite" \in tokens' \/ lost'
        BY <2>1, <3>1, <3>2, AccountFacts
      <3>6. Exists => (account.password => account'.password)
        BY <3>1
      <3>7. tokens \subseteq Purposes /\ lost \in BOOLEAN
        BY DEF LoginInv, TypeOK
      <3> QED BY <2>1, <3>3, <3>4, <3>5, <3>6, <3>7, FinishTypes, WriteStep
    <2> QED BY <2>2, <2>3
  <1> QED BY <1>1, <1>2 DEF OAuthLogin

LEMMA LinkStep ==
  ASSUME LoginInv, NEW r \in Requests, LinkProviderAdmin(r) \/ LinkProviderCustomer(r)
  PROVE  LoginInv'
  <1>1. ASSUME NEW p \in Providers, LinkRead(r, p)
        PROVE  LoginInv'
    BY <1>1, ReadStep DEF LinkRead, SignedIn, Ops
  <1>2. CASE LinkWrite(r)
    <2>1. Seen(r) # NoAccount /\ Provider(r) \in Providers
      BY <1>2 DEF LinkWrite, Writes, LoginInv, SeenFits
    <2> QED BY <1>2, <2>1, AddProvider DEF LinkWrite
  <1> QED BY <1>1, <1>2, LoginAssumption DEF LinkProviderAdmin, LinkProviderCustomer

(* Unlinking takes the provider out of both columns, and what it saw is    *)
(* enough for a sign-in without it.                                        *)
LEMMA UnlinkStep ==
  ASSUME LoginInv, NEW r \in Requests, UnlinkProviderAdmin(r) \/ UnlinkProviderCustomer(r)
  PROVE  LoginInv'
  <1>1. ASSUME NEW p \in Providers, UnlinkRead(r, p)
        PROVE  LoginInv'
    BY <1>1, ReadStep DEF UnlinkRead, SignedIn, Ops
  <1>2. CASE UnlinkWrite(r)
    <2> DEFINE p == Provider(r)
               P == Seen(r).providers \ {p}
               I == Seen(r).ids \ {p}
    <2>1. /\ Seen(r) # NoAccount /\ p \in Providers
          /\ Seen(r).password \/ Seen(r).providers \ {p, "local"} # {}
      BY <1>2 DEF UnlinkWrite, Writes, LoginInv, SeenFits
    <2>2. /\ Exists /\ account \in Row /\ Seen(r) \in Row /\ Agree(Seen(r))
          /\ Seen(r).password => account.password
      BY <2>1, AccountFacts DEF LoginInv, SeenFits, TypeOK, Request, Seen
    <2>3. P \in SUBSET Methods /\ I \in SUBSET Providers
      BY <2>2 DEF Row
    <2>4. account' = WithMethods(P, I) /\ Finish(r) /\ UNCHANGED <<kind, tokens, lost>>
      BY <1>2 DEF UnlinkWrite
    <2>5. /\ account' \in Row /\ account'.password = account.password
          /\ account'.providers = P /\ account'.ids = I
      BY <2>2, <2>3, <2>4, ColumnTypes
    <2>6. Exists' /\ Agree(account')
      BY <2>1, <2>2, <2>5, LoginAssumption DEF Exists, Agree
    <2>7. account'.password \/ account'.ids # {}
      BY <2>1, <2>2, <2>5 DEF Agree
    <2>8. tokens \subseteq Purposes /\ lost \in BOOLEAN
      BY DEF LoginInv, TypeOK
    <2> QED BY <2>4, <2>5, <2>6, <2>7, <2>8, FinishTypes, WriteStep
  <1> QED BY <1>1, <1>2, LoginAssumption DEF UnlinkProviderAdmin, UnlinkProviderCustomer

LEMMA SetPasswordStep ==
  ASSUME LoginInv, NEW r \in Requests, SetPasswordAdmin(r) \/ SetPasswordCustomer(r)
  PROVE  LoginInv'
  <1>1. CASE SetPasswordRead(r)
    BY <1>1, ReadStep DEF SetPasswordRead, SignedIn, Ops
  <1>2. CASE SetPasswordWrite(r)
    <2>1. Seen(r) # NoAccount
      BY <1>2 DEF SetPasswordWrite, Writes, LoginInv, SeenFits
    <2>2. account \in Row /\ Seen(r) \in Row
      BY <2>1, AccountFacts DEF LoginInv, SeenFits, TypeOK, Request, Seen
    <2>3. Seen(r).providers \cup {"local"} \in SUBSET Methods
      BY <2>2 DEF Row, Methods
    <2>4. /\ account' = [account EXCEPT !.password = TRUE, !.providers = Seen(r).providers \cup {"local"}]
          /\ Finish(r) /\ UNCHANGED <<kind, tokens, lost>>
      BY <1>2 DEF SetPasswordWrite
    <2>5. account' \in Row /\ account'.password
      BY <2>2, <2>3, <2>4 DEF Row
    <2>6. Exists' /\ Agree(account')
      BY <2>5, LoginAssumption DEF Exists, Agree
    <2>7. tokens \subseteq Purposes /\ lost \in BOOLEAN
      BY DEF LoginInv, TypeOK
    <2> QED BY <2>4, <2>5, <2>6, <2>7, FinishTypes, WriteStep
  <1> QED BY <1>1, <1>2 DEF SetPasswordAdmin, SetPasswordCustomer

(* Accounts the owner of an organization makes. *)
LEMMA MemberStep ==
  ASSUME LoginInv, CreateMember \/ InviteMember
  PROVE  LoginInv'
  <1>1. /\ tokens \subseteq Purposes /\ lost \in BOOLEAN /\ (tokens # {} => Exists)
        /\ request \in [Requests -> Request]
    BY DEF LoginInv, TypeOK
  <1>2. CASE CreateMember
    <2>1. /\ ~Exists /\ account' = LocalRow(TRUE)
          /\ UNCHANGED <<kind, tokens, request, lost>>
      BY <1>2 DEF CreateMember
    <2>2. account' \in Row /\ account' # NoAccount /\ Agree(account') /\ account'.password
      BY <2>1, NewAccounts DEF LocalRow
    <2> QED BY <1>1, <2>1, <2>2, WriteStep DEF Exists
  <1>3. CASE InviteMember
    <2>1. /\ account' = IF Exists THEN account ELSE InvitedRow
          /\ tokens' = tokens \cup {"team_invite"}
          /\ lost' = FALSE /\ UNCHANGED <<kind, request>>
      BY <1>3 DEF InviteMember
    <2>2. account' \in Row /\ account' # NoAccount /\ Agree(account')
      BY <2>1, NewAccounts, AccountFacts DEF Exists
    <2>3. tokens' \subseteq Purposes
      BY <1>1, <2>1 DEF Purposes
    <2> QED BY <1>1, <2>1, <2>2, <2>3, WriteStep DEF Exists
  <1> QED BY <1>2, <1>3

(* An invitation that expires is lost; the other tokens let nobody in.     *)
LEMMA ExpiryStep ==
  ASSUME LoginInv, NEW purpose \in Purposes, TokenExpires(purpose)
  PROVE  LoginInv'
  <1>1. /\ tokens' = tokens \ {purpose} /\ lost' = (lost \/ purpose = "team_invite")
        /\ UNCHANGED <<kind, account, request>> /\ Exists
    BY DEF TokenExpires, LoginInv, TypeOK
  <1>2. /\ tokens \subseteq Purposes /\ lost \in BOOLEAN /\ account \in Row /\ Agree(account)
        /\ request \in [Requests -> Request]
        /\ account.password \/ account.ids # {} \/ "team_invite" \in tokens \/ lost
    BY <1>1, AccountFacts DEF LoginInv, TypeOK
  <1>3. tokens' \subseteq Purposes /\ lost' \in BOOLEAN
    BY <1>1, <1>2
  <1>4. Exists' /\ account' \in Row /\ Agree(account') /\ account'.password = account.password
    BY <1>1, <1>2 DEF Exists
  <1>5. account'.password \/ account'.ids # {} \/ "team_invite" \in tokens' \/ lost'
    BY <1>1, <1>2
  <1> QED BY <1>1, <1>2, <1>3, <1>4, <1>5, WriteStep

(* Accepting an invitation sets a password with the same statement that    *)
(* deletes the token.                                                      *)
LEMMA AcceptStep ==
  ASSUME LoginInv, NEW r \in Requests, AcceptInvite(r)
  PROVE  LoginInv'
  <1>1. CASE AcceptRead(r)
    <2>1. Exists
      BY <1>1 DEF AcceptRead, LoginInv, TypeOK
    <2> QED BY <1>1, <2>1, ReadStep DEF AcceptRead, Ops
  <1>2. CASE AcceptCommit(r)
    <2>1. Exists /\ account \in Row
      BY <1>2, AccountFacts DEF AcceptCommit, Writes, LoginInv, TypeOK
    <2>2. /\ account' = [account EXCEPT !.password = TRUE, !.verified = TRUE]
          /\ tokens' = tokens \ {"team_invite"} /\ Finish(r) /\ UNCHANGED <<kind, lost>>
      BY <1>2 DEF AcceptCommit
    <2>3. account' \in Row /\ account'.password
      BY <2>1, <2>2 DEF Row
    <2>4. Exists' /\ Agree(account')
      BY <2>3, LoginAssumption DEF Exists, Agree
    <2>5. tokens' \subseteq Purposes /\ lost' \in BOOLEAN
      BY <2>2 DEF LoginInv, TypeOK
    <2> QED BY <2>2, <2>3, <2>4, <2>5, FinishTypes, WriteStep
  <1> QED BY <1>1, <1>2 DEF AcceptInvite

(* Verifying and resending delete tokens; if an invitation was among them, *)
(* lost says so.                                                        *)
LEMMA VerifyStep ==
  ASSUME LoginInv, NEW r \in Requests, VerifyAdminEmail(r) \/ ResendVerificationEmail(r)
  PROVE  LoginInv'
  <1>1. CASE tokens # {} /\ Read(r, "verify", NoProvider)
    <2>1. Exists
      BY <1>1 DEF LoginInv, TypeOK
    <2> QED BY <1>1, <2>1, ReadStep DEF Ops
  <1>2. CASE Exists /\ Read(r, "resend", NoProvider)
    BY <1>2, ReadStep DEF Ops
  <1>3. ASSUME Writes(r, "verify") \/ Writes(r, "resend"),
               account' \in {account, [account EXCEPT !.verified = TRUE]},
               tokens' \subseteq {"email_verification"},
               lost' = (lost \/ "team_invite" \in tokens),
               Finish(r), kind' = kind
        PROVE  LoginInv'
    <2>1. Exists /\ account \in Row /\ Agree(account)
      BY <1>3, AccountFacts DEF Writes, LoginInv, TypeOK
    <2>2. /\ account' \in Row /\ account'.password = account.password
          /\ account'.providers = account.providers /\ account'.ids = account.ids
      BY <1>3, <2>1 DEF Row
    <2>3. Exists' /\ Agree(account')
      BY <2>1, <2>2, LoginAssumption DEF Exists, Agree
    <2>4. tokens' \subseteq Purposes /\ lost' \in BOOLEAN
      BY <1>3 DEF LoginInv, TypeOK, Purposes
    <2>5. account'.password \/ account'.ids # {} \/ "team_invite" \in tokens' \/ lost'
      BY <1>3, <2>1, <2>2, AccountFacts
    <2> QED BY <1>3, <2>2, <2>3, <2>4, <2>5, FinishTypes, WriteStep
  <1> QED BY <1>1, <1>2, <1>3 DEF VerifyAdminEmail, ResendVerificationEmail

LEMMA FailStep ==
  ASSUME LoginInv, NEW r \in Requests, RequestFails(r)
  PROVE  LoginInv'
  <1>1. /\ tokens \subseteq Purposes /\ lost \in BOOLEAN /\ (tokens # {} => Exists)
        /\ account \in Row \cup {NoAccount}
    BY DEF LoginInv, TypeOK
  <1>2. Finish(r) /\ UNCHANGED <<kind, account, tokens, lost>>
    BY DEF RequestFails
  <1>3. Exists' = Exists
    BY <1>2 DEF Exists
  <1> QED BY <1>1, <1>2, <1>3, FinishTypes, WriteStep, AccountFacts

LEMMA LoginStep == LoginInv /\ [Next]_vars => LoginInv'
  <1> SUFFICES ASSUME LoginInv, [Next]_vars PROVE LoginInv'
    OBVIOUS
  <1>1. CASE UNCHANGED vars
    BY <1>1 DEF vars, LoginInv, TypeOK, SeenFits, PasswordlessColumnsAgree, KeepsALoginMethod,
                Exists, Seen, Provider
  <1>2. CASE CreateMember \/ InviteMember \/ \E purpose \in Purposes : TokenExpires(purpose)
    BY <1>2, MemberStep, ExpiryStep
  <1>3. ASSUME NEW r \in Requests, GoogleLoginAdmin(r) \/ GithubLoginAdmin(r) \/ GoogleLoginCustomer(r)
        PROVE  LoginInv'
    BY <1>3, OAuthStep, LoginAssumption DEF GoogleLoginAdmin, GithubLoginAdmin, GoogleLoginCustomer
  <1> QED
    BY <1>1, <1>2, <1>3, RegisterStep, LinkStep, UnlinkStep, SetPasswordStep, AcceptStep,
       VerifyStep, FailStep
    DEF Next, Handle

(* The types of the variables, and that pending writes on an account have  *)
(* one to write to.                                                        *)
THEOREM LoginTypeCorrect == Spec => []TypeOK
  <1>1. LoginInv => TypeOK
    BY DEF LoginInv
  <1> QED BY <1>1, LoginInit, LoginStep, PTL DEF Spec

(* auth_providers and provider_ids of an account without a password name   *)
(* the same providers, whatever linkings and unlinkings race.              *)
THEOREM LoginColumnsAgree == Spec => []PasswordlessColumnsAgree
  <1>1. LoginInv => PasswordlessColumnsAgree
    BY DEF LoginInv
  <1> QED BY <1>1, LoginInit, LoginStep, PTL DEF Spec

(* unlinkProvider, or two of them, never takes the last way into an        *)
(* account; only an invitation that expired or was deleted unused can.     *)
THEOREM LoginKeepsAMethod == Spec => []KeepsALoginMethod
  <1>1. LoginInv => KeepsALoginMethod
    BY DEF LoginInv
  <1> QED BY <1>1, LoginInit, LoginStep, PTL DEF Spec
=============================================================================
