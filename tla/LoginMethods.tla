----------------------------- MODULE LoginMethods -----------------------------
(***************************************************************************)
(* The ways into one account, of an admin (cinema_admin_user,              *)
(* auth.Controller.js, team.service.js) or of a customer (customers,       *)
(* customerAuth.Controller.js): a password, linked OAuth providers, or an  *)
(* invitation that still has to be accepted.                               *)
(*                                                                         *)
(* Every handler reads the row, works on what it read (calls Google,       *)
(* hashes a password) and writes whole columns back, in statements of      *)
(* their own.  A request is therefore a read and a write, and any number   *)
(* of requests may run at a time.                                          *)
(***************************************************************************)
EXTENDS Naturals

CONSTANTS Requests,     \* requests that run at the same time
          Providers,    \* OAuth providers: google, github
          Google,       \* the one customers may use
          NoProvider, NoAccount

VARIABLES
  kind,         \* "admin" or "customer": the table and the endpoints
  account,      \* its row, or NoAccount
  tokens,       \* purposes of its rows of admin_verification_tokens that have not expired
  request,      \* request -> what it does and the row it read
  lost          \* history: the last invitation expired, or was deleted, unused

vars == <<kind, account, tokens, request, lost>>

-----------------------------------------------------------------------------
Methods == {"local"} \cup Providers
Row == [password : BOOLEAN, verified : BOOLEAN, providers : SUBSET Methods, ids : SUBSET Providers]

ASSUME LoginAssumption == /\ Google \in Providers
                          /\ "local" \notin Providers
                          /\ NoProvider \notin Providers
                          /\ NoAccount \notin Row

Purposes == {"email_verification", "team_invite"}
Ops == {"idle", "register", "token", "login", "link", "unlink", "setPassword", "accept", "verify", "resend"}
Request == [op : Ops, provider : Providers \cup {NoProvider}, seen : Row \cup {NoAccount}]

Idle == [op |-> "idle", provider |-> NoProvider, seen |-> NoAccount]

Exists == account # NoAccount
Seen(r) == request[r].seen
Provider(r) == request[r].provider
Writes(r, op) == request[r].op = op

(* A handler has read the row and goes on to its write. *)
Read(r, op, p) ==
  /\ request[r] = Idle
  /\ request' = [request EXCEPT ![r] = [op |-> op, provider |-> p, seen |-> account]]
  /\ UNCHANGED <<kind, account, tokens, lost>>

Finish(r) == request' = [request EXCEPT ![r] = Idle]

(* Somebody can have signed in, and so call the endpoints for signed-in    *)
(* users: by a provider, or by a password once the e-mail is verified.     *)
SignedIn == Exists /\ (account.ids # {} \/ (account.password /\ account.verified))

(* The rows the INSERTs make; auth_providers defaults to {local}, and so   *)
(* does that of an invited account, which has no password yet.             *)
LocalRow(verified) ==
  [password |-> TRUE, verified |-> verified, providers |-> {"local"}, ids |-> {}]
InvitedRow ==
  [password |-> FALSE, verified |-> FALSE, providers |-> {"local"}, ids |-> {}]
OAuthRow(p) ==
  [password |-> FALSE, verified |-> TRUE, providers |-> {p}, ids |-> {p}]

(* UPDATE ... SET auth_providers, provider_ids from the row that was read. *)
WithMethods(providers, ids) ==
  [account EXCEPT !.providers = providers, !.ids = ids]

Init == /\ kind \in {"admin", "customer"}
        /\ account = NoAccount
        /\ tokens = {}
        /\ request = [r \in Requests |-> Idle]
        /\ lost = FALSE

-----------------------------------------------------------------------------
(* registerCinemaAdmin and registerCustomer: the e-mail is looked up, the  *)
(* row is inserted unless somebody else was faster (UNIQUE), and an        *)
(* admin's verification token follows in a statement of its own.           *)

RegisterRead(r) == ~Exists /\ Read(r, "register", NoProvider)

RegisterInsert(r) ==
  /\ Writes(r, "register")
  /\ \/ /\ Exists
        /\ Finish(r)
        /\ UNCHANGED account
     \/ /\ ~Exists
        /\ account' = LocalRow(FALSE)
        /\ IF kind = "admin" THEN request' = [request EXCEPT ![r].op = "token"] ELSE Finish(r)
  /\ UNCHANGED <<kind, tokens, lost>>

RegisterToken(r) ==
  /\ Writes(r, "token")
  /\ tokens' = tokens \cup {"email_verification"}
  /\ Finish(r)
  /\ UNCHANGED <<kind, account, lost>>

RegisterCinemaAdmin(r) == kind = "admin" /\ (RegisterRead(r) \/ RegisterInsert(r) \/ RegisterToken(r))
RegisterCustomer(r) == kind = "customer" /\ (RegisterRead(r) \/ RegisterInsert(r))

-----------------------------------------------------------------------------
(* Sign-in with a provider: a new account, or one that the provider is     *)
(* linked to on the way.  A sign-in whose provider is linked already       *)
(* changes none of these columns.                                          *)

OAuthLoginRead(r, p) ==
  /\ Exists => p \notin account.providers
  /\ Read(r, "login", p)

OAuthLoginWrite(r) ==
  /\ Writes(r, "login")
  /\ \/ /\ Seen(r) = NoAccount
        /\ account' = IF Exists THEN account ELSE OAuthRow(Provider(r))
     \/ /\ Seen(r) # NoAccount
        /\ account' = [WithMethods(Seen(r).providers \cup {Provider(r)}, Seen(r).ids \cup {Provider(r)})
                         EXCEPT !.verified = TRUE]
  /\ Finish(r)
  /\ UNCHANGED <<kind, tokens, lost>>

OAuthLogin(r, p) == OAuthLoginRead(r, p) \/ (Provider(r) = p /\ OAuthLoginWrite(r))

GoogleLoginAdmin(r) == kind = "admin" /\ OAuthLogin(r, Google)
GithubLoginAdmin(r) == kind = "admin" /\ \E p \in Providers \ {Google} : OAuthLogin(r, p)
GoogleLoginCustomer(r) == kind = "customer" /\ OAuthLogin(r, Google)

-----------------------------------------------------------------------------
(* linkProvider, unlinkProvider, setPassword of a signed-in user.          *)

LinkRead(r, p) ==
  /\ SignedIn
  /\ p \notin account.providers
  /\ Read(r, "link", p)

LinkWrite(r) ==
  /\ Writes(r, "link")
  /\ account' = WithMethods(Seen(r).providers \cup {Provider(r)}, Seen(r).ids \cup {Provider(r)})
  /\ Finish(r)
  /\ UNCHANGED <<kind, tokens, lost>>

LinkProviderAdmin(r) == kind = "admin" /\ (LinkWrite(r) \/ \E p \in Providers : LinkRead(r, p))
LinkProviderCustomer(r) == kind = "customer" /\ (LinkWrite(r) \/ LinkRead(r, Google))

(* A slip: any linked provider may go. *)
MayUnlinkAny(p) == p \in account.providers

(* "Prevent removing last auth method": something else than 'local' has to *)
(* remain, or a password.                                                  *)
MayUnlink(p) ==
  /\ p \in account.providers
  /\ account.providers \ {p, "local"} # {} \/ account.password

UnlinkRead(r, p) ==
  /\ SignedIn
  /\ MayUnlink(p)
  /\ Read(r, "unlink", p)

(* A slip: the id of the provider stays. *)
UnlinkWriteKeepId(r) ==
  /\ Writes(r, "unlink")
  /\ account' = WithMethods(Seen(r).providers \ {Provider(r)}, Seen(r).ids)
  /\ Finish(r)
  /\ UNCHANGED <<kind, tokens, lost>>

UnlinkWrite(r) ==
  /\ Writes(r, "unlink")
  /\ account' = WithMethods(Seen(r).providers \ {Provider(r)}, Seen(r).ids \ {Provider(r)})
  /\ Finish(r)
  /\ UNCHANGED <<kind, tokens, lost>>

UnlinkProviderAdmin(r) == kind = "admin" /\ (UnlinkWrite(r) \/ \E p \in Providers : UnlinkRead(r, p))
UnlinkProviderCustomer(r) == kind = "customer" /\ (UnlinkWrite(r) \/ UnlinkRead(r, Google))

SetPasswordRead(r) ==
  /\ SignedIn
  /\ ~account.password
  /\ Read(r, "setPassword", NoProvider)

SetPasswordWrite(r) ==
  /\ Writes(r, "setPassword")
  /\ account' = [account EXCEPT !.password = TRUE, !.providers = Seen(r).providers \cup {"local"}]
  /\ Finish(r)
  /\ UNCHANGED <<kind, tokens, lost>>

SetPasswordAdmin(r) == kind = "admin" /\ (SetPasswordRead(r) \/ SetPasswordWrite(r))
SetPasswordCustomer(r) == kind = "customer" /\ (SetPasswordRead(r) \/ SetPasswordWrite(r))

-----------------------------------------------------------------------------
(* Accounts made by the owner of an organization, and the tokens that      *)
(* verify an e-mail or accept an invitation.  createMember and             *)
(* inviteMember are transactions, serialised by the unique e-mail.  Every  *)
(* handler refuses an expired token (an invitation after 7 days), so a     *)
(* token that expires is gone.                                             *)

CreateMember ==
  /\ kind = "admin"
  /\ ~Exists
  /\ account' = LocalRow(TRUE)
  /\ UNCHANGED <<kind, tokens, request, lost>>

InviteMember ==
  /\ kind = "admin"
  /\ account' = IF Exists THEN account ELSE InvitedRow
  /\ tokens' = tokens \cup {"team_invite"}
  /\ lost' = FALSE
  /\ UNCHANGED <<kind, request>>

TokenExpires(purpose) ==
  /\ purpose \in tokens
  /\ tokens' = tokens \ {purpose}
  /\ lost' = (lost \/ purpose = "team_invite")
  /\ UNCHANGED <<kind, account, request>>

AcceptRead(r) == "team_invite" \in tokens /\ Read(r, "accept", NoProvider)

AcceptCommit(r) ==
  /\ Writes(r, "accept")
  /\ account' = [account EXCEPT !.password = TRUE, !.verified = TRUE]
  /\ tokens' = tokens \ {"team_invite"}
  /\ Finish(r)
  /\ UNCHANGED <<kind, lost>>

AcceptInvite(r) == AcceptRead(r) \/ AcceptCommit(r)

(* The SELECT of verifyAdminEmail does not ask for the purpose, and its    *)
(* DELETE takes every token of the admin.                                  *)
VerifyAdminEmail(r) ==
  \/ tokens # {} /\ Read(r, "verify", NoProvider)
  \/ /\ Writes(r, "verify")
     /\ account' = [account EXCEPT !.verified = TRUE]
     /\ tokens' = {}
     /\ lost' = (lost \/ "team_invite" \in tokens)
     /\ Finish(r)
     /\ UNCHANGED kind

ResendVerificationEmail(r) ==
  \/ kind = "admin" /\ Exists /\ ~account.verified /\ Read(r, "resend", NoProvider)
  \/ /\ Writes(r, "resend")
     /\ tokens' = {"email_verification"}
     /\ lost' = (lost \/ "team_invite" \in tokens)
     /\ Finish(r)
     /\ UNCHANGED <<kind, account>>

(* A statement fails, or the process dies, between two statements.         *)
RequestFails(r) ==
  /\ request[r] # Idle
  /\ Finish(r)
  /\ UNCHANGED <<kind, account, tokens, lost>>

-----------------------------------------------------------------------------
Handle(r) ==
  \/ RegisterCinemaAdmin(r) \/ RegisterCustomer(r)
  \/ GoogleLoginAdmin(r) \/ GithubLoginAdmin(r) \/ GoogleLoginCustomer(r)
  \/ LinkProviderAdmin(r) \/ LinkProviderCustomer(r)
  \/ UnlinkProviderAdmin(r) \/ UnlinkProviderCustomer(r)
  \/ SetPasswordAdmin(r) \/ SetPasswordCustomer(r)
  \/ AcceptInvite(r) \/ VerifyAdminEmail(r) \/ ResendVerificationEmail(r)
  \/ RequestFails(r)

Next == \/ CreateMember \/ InviteMember
        \/ \E purpose \in Purposes : TokenExpires(purpose)
        \/ \E r \in Requests : Handle(r)

Spec == Init /\ [][Next]_vars

-----------------------------------------------------------------------------
(* Rows and requests are well formed, and what waits for a write on the    *)
(* row has an account to write to.                                         *)
TypeOK ==
  /\ kind \in {"admin", "customer"}
  /\ account \in Row \cup {NoAccount}
  /\ tokens \subseteq Purposes
  /\ request \in [Requests -> Request]
  /\ lost \in BOOLEAN
  /\ tokens # {} => Exists
  /\ \A r \in Requests : request[r].op \notin {"idle", "register", "login"} => Exists

(* While an account has no password, its auth_providers and provider_ids   *)
(* name the same providers, whatever stale rows the handlers write back:   *)
(* unlinkProvider decides by the one what the sign-in depends on by the    *)
(* other.  With a password they may differ: setPassword writes             *)
(* auth_providers alone, over a link or an unlinking made meanwhile.       *)
PasswordlessColumnsAgree ==
  Exists /\ ~account.password => account.ids = account.providers \ {"local"}

(* An account can always be entered: by a password, by a linked provider,  *)
(* or by an invitation that is still good, unless the last one expired     *)
(* (after 7 days) or was deleted by verifyAdminEmail or                    *)
(* resendVerificationEmail; a new invitation mends that.  Two unlinkings   *)
(* that race, each leaving the other's provider, must not break it.        *)
KeepsALoginMethod ==
  Exists => \/ account.password
            \/ account.ids # {}
            \/ "team_invite" \in tokens
            \/ lost
=============================================================================
