--------------------------------- MODULE Team ---------------------------------
(***************************************************************************)
(* Organizations and their members: completeOnboarding of                  *)
(* auth.Controller.js, team.service.js, and the query that decides in      *)
(* which organization an admin acts.                                       *)
(*                                                                         *)
(* Onboarding checks first and writes later; an invitation looks for a     *)
(* live membership, then revives a removed one, then inserts a new one,    *)
(* each in a statement of its own.  A statement sees what the others have  *)
(* committed; the rows it writes are kept from them until its transaction  *)
(* ends, so the last statement of a request stands for its COMMIT.         *)
(***************************************************************************)
EXTENDS Naturals, Sequences

CONSTANTS Admins,     \* rows of cinema_admin_user there may be
          Staff,      \* those whose role there is 'staff'
          NoAdmin,
          Names,      \* names of organizations
          Requests,   \* onboardings and invitations that run at the same time
          MaxRows     \* bound: rows of organization_members

ASSUME TeamAssumption == Staff \subseteq Admins /\ NoAdmin \notin Admins /\ MaxRows \in Nat

(* The slug is made of the name and the owner's id, and slugs are unique:  *)
(* an organization is its owner and its name.                              *)
Orgs == Admins \X Names
NoOrg == <<>>
Owner(o) == o[1]

VARIABLES orgs,       \* the organizations there are
          withHall,   \* those with a row in cinema_hall
          members,    \* organization_members, oldest row first
          known,      \* admins that have a row in cinema_admin_user
          token,      \* admins with a valid invitation token
          request,    \* request -> where it is and what it found
          out         \* history: rows the organization has turned out and not let in again

vars == <<orgs, withHall, members, known, token, request, out>>

Statuses == {"invited", "active", "suspended", "removed"}
MemberRoles == {"owner", "other"}
Row == [org : Orgs, admin : Admins, status : Statuses, role : MemberRoles]
Steps == {"idle", "onboard", "create", "revive", "insert", "join"}
Request == [step : Steps, org : Orgs \cup {NoOrg}, admin : Admins \cup {NoAdmin}]
Idle == [step |-> "idle", org |-> NoOrg, admin |-> NoAdmin]

-----------------------------------------------------------------------------
RowsOf(o, a) == {i \in DOMAIN members : members[i].org = o /\ members[i].admin = a}
Live(i) == members[i].status # "removed"
Active(a) == {i \in DOMAIN members : members[i].admin = a /\ members[i].status = "active"}
OwnerRow(i) == members[i].admin = Owner(members[i].org)
HasHall(i) == members[i].org \in withHall

(* A slip: the oldest membership decides among those with halls. *)
OutranksByAge(i, j) == IF HasHall(i) # HasHall(j) THEN HasHall(i) ELSE i < j

(* The ORDER BY of resolveOrgContext and resolveOrgId: a hall, then        *)
(* ownership, then age.                                                    *)
Outranks(i, j) ==
  IF HasHall(i) # HasHall(j) THEN HasHall(i)
  ELSE IF OwnerRow(i) # OwnerRow(j) THEN OwnerRow(i) ELSE i < j

ResolveOrgId(a) ==
  IF Active(a) = {} THEN NoOrg
  ELSE members[CHOOSE i \in Active(a) : \A j \in Active(a) \ {i} : Outranks(i, j)].org

(* The partial unique index on live memberships. *)
MayBeLive(i) == \A j \in RowsOf(members[i].org, members[i].admin) \ {i} : ~Live(j)

At(r, step) == request[r].step = step
Goto(r, step, o, a) == request' = [request EXCEPT ![r] = [step |-> step, org |-> o, admin |-> a]]
Finish(r) == request' = [request EXCEPT ![r] = Idle]

Init == /\ orgs = {} /\ withHall = {} /\ members = <<>>
        /\ known = Admins \ Staff
        /\ token = {}
        /\ request = [r \in Requests |-> Idle]
        /\ out = {}

-----------------------------------------------------------------------------
(* completeOnboarding, before its transaction: staff are turned away, and  *)
(* so is who acts in somebody else's organization.                         *)
OnboardCheck(r, a, n) ==
  /\ request[r] = Idle
  /\ a \in known \ Staff
  /\ ResolveOrgId(a) \in {NoOrg} \cup ({a} \X Names)
  /\ Goto(r, "onboard", <<a, n>>, a)
  /\ UNCHANGED <<orgs, withHall, members, known, token, out>>

(* An organization of their own, any if there are several, or a new one.   *)
OnboardResolve(r) ==
  LET a == request[r].admin
      own == {o \in orgs : Owner(o) = a}
  IN /\ At(r, "onboard")
     /\ \E o \in IF own = {} THEN {request[r].org} ELSE own : Goto(r, "create", o, a)
     /\ UNCHANGED <<orgs, withHall, members, known, token, out>>

(* ON CONFLICT ... WHERE status <> 'removed' DO NOTHING *)
WithOwner(o, a) ==
  IF \E i \in RowsOf(o, a) : Live(i) THEN members
  ELSE Append(members, [org |-> o, admin |-> a, status |-> "active", role |-> "owner"])

(* Organization, roles with their permissions, the owner's membership,     *)
(* settings, a hall and its settings, in one transaction.  Two requests    *)
(* with one name meet at the slug and get one organization.                *)
OnboardCommit(r) ==
  LET o == request[r].org IN
  /\ At(r, "create")
  /\ Len(members) < MaxRows
  /\ orgs' = orgs \cup {o}
  /\ members' = WithOwner(o, request[r].admin)
  /\ withHall' = withHall \cup {o}
  /\ Finish(r)
  /\ UNCHANGED <<known, token, out>>

CompleteOnboarding(r) ==
  \/ \E a \in Admins, n \in Names : OnboardCheck(r, a, n)
  \/ OnboardResolve(r) \/ OnboardCommit(r)

(* createHall; deleteHall, of one of several halls or of the last. *)
CreateHall(o) ==
  /\ o \in orgs
  /\ withHall' = withHall \cup {o}
  /\ UNCHANGED <<orgs, members, known, token, request, out>>

DeleteHall(o) ==
  /\ o \in withHall
  /\ withHall' \in {withHall, withHall \ {o}}
  /\ UNCHANGED <<orgs, members, known, token, request, out>>

-----------------------------------------------------------------------------
(* createMember: a new account that is a member at once. *)
CreateMember(o, a) ==
  /\ o \in orgs
  /\ a \in Staff \ known
  /\ Len(members) < MaxRows
  /\ known' = known \cup {a}
  /\ members' = Append(members, [org |-> o, admin |-> a, status |-> "active", role |-> "other"])
  /\ UNCHANGED <<orgs, withHall, token, request, out>>

(* inviteMember: nobody with a live membership is invited, and who has no  *)
(* account gets one with the invitation.                                   *)
InviteCheck(r, o, a) ==
  /\ request[r] = Idle
  /\ o \in orgs
  /\ \A i \in RowsOf(o, a) : ~Live(i)
  /\ Goto(r, IF a \in known THEN "revive" ELSE "join", o, a)
  /\ UNCHANGED <<orgs, withHall, members, known, token, out>>

(* UPDATE ... WHERE status = 'removed', then the token.  Of two removed    *)
(* rows of one admin the index lets neither through.                       *)
InviteRevive(r) ==
  LET a == request[r].admin
      rows == RowsOf(request[r].org, a)
  IN /\ At(r, "revive")
     /\ \E i \in rows :
          /\ ~Live(i) /\ MayBeLive(i)
          /\ \A j \in rows : ~Live(j) => j = i
          /\ members' = [members EXCEPT ![i].status = "invited", ![i].role = "other"]
          /\ out' = out \ {i}
     /\ token' = token \cup {a}
     /\ Finish(r)
     /\ UNCHANGED <<orgs, withHall, known>>

InviteNothingToRevive(r) ==
  /\ At(r, "revive")
  /\ \A i \in RowsOf(request[r].org, request[r].admin) : Live(i)
  /\ request' = [request EXCEPT ![r].step = "insert"]
  /\ UNCHANGED <<orgs, withHall, members, known, token, out>>

(* The indexes of e-mails and of live memberships have the last word. *)
InviteInsert(r) ==
  LET o == request[r].org
      a == request[r].admin
  IN /\ At(r, "insert") \/ (At(r, "join") /\ a \notin known)
     /\ Len(members) < MaxRows
     /\ \A i \in RowsOf(o, a) : ~Live(i)
     /\ members' = Append(members, [org |-> o, admin |-> a, status |-> "invited", role |-> "other"])
     /\ known' = known \cup {a}
     /\ token' = token \cup {a}
     /\ Finish(r)
     /\ UNCHANGED <<orgs, withHall, out>>

InviteMember(r) ==
  \/ \E o \in Orgs, a \in Admins : InviteCheck(r, o, a)
  \/ InviteRevive(r) \/ InviteNothingToRevive(r) \/ InviteInsert(r)

(* ROLLBACK: a unique index said no, or a statement failed. *)
RequestFails(r) ==
  /\ request[r] # Idle
  /\ Finish(r)
  /\ UNCHANGED <<orgs, withHall, members, known, token, out>>

(* A slip: every membership of the admin that is not suspended. *)
AcceptedAll(a) ==
  [i \in DOMAIN members |-> IF members[i].admin = a /\ members[i].status # "suspended"
                            THEN [members[i] EXCEPT !.status = "active"] ELSE members[i]]

Accepted(a) ==
  [i \in DOMAIN members |-> IF members[i].admin = a /\ members[i].status = "invited"
                            THEN [members[i] EXCEPT !.status = "active"] ELSE members[i]]

(* acceptInvite: one token accepts the invitations of every organization,  *)
(* and still sets the password when there is none left (LoginMethods.tla). *)
AcceptInvite(a) ==
  /\ a \in token
  /\ members' = Accepted(a)
  /\ token' = token \ {a}
  /\ UNCHANGED <<orgs, withHall, known, request, out>>

(* Seven days are over, or a verification mail replaced the token. *)
InviteLost(a) ==
  /\ a \in token
  /\ token' = token \ {a}
  /\ UNCHANGED <<orgs, withHall, members, known, request, out>>

-----------------------------------------------------------------------------
(* A slip: the owner of any organization but the one they act in. *)
MayModifyIfAbsent(i) == ~(OwnerRow(i) /\ ResolveOrgId(members[i].admin) = members[i].org)

(* assertNotOrgOwner.  The owner of an organization never changes, so that *)
(* the check comes in a statement of its own makes no difference.          *)
MayModify(i) == ~OwnerRow(i)

(* updateMember: any status may follow any other. *)
UpdateStatus(i, s) ==
  /\ MayModify(i)
  /\ s # "removed" => MayBeLive(i)
  /\ members' = [members EXCEPT ![i].status = s]
  /\ out' = IF s = "removed" THEN out \cup {i} ELSE out \ {i}
  /\ UNCHANGED <<orgs, withHall, known, token, request>>

UpdateMemberRole(i, part) ==
  /\ MayModify(i)
  /\ members' = [members EXCEPT ![i].role = part]
  /\ UNCHANGED <<orgs, withHall, known, token, request, out>>

RemoveMember(i) ==
  /\ MayModify(i)
  /\ members' = [members EXCEPT ![i].status = "removed"]
  /\ out' = out \cup {i}
  /\ UNCHANGED <<orgs, withHall, known, token, request>>

-----------------------------------------------------------------------------
Next ==
  \/ \E r \in Requests : CompleteOnboarding(r) \/ InviteMember(r) \/ RequestFails(r)
  \/ \E o \in Orgs : CreateHall(o) \/ DeleteHall(o) \/ \E a \in Admins : CreateMember(o, a)
  \/ \E a \in Admins : AcceptInvite(a) \/ InviteLost(a)
  \/ \E i \in DOMAIN members :
       \/ \E s \in Statuses : UpdateStatus(i, s)
       \/ \E part \in MemberRoles : UpdateMemberRole(i, part)
       \/ RemoveMember(i)

Spec == Init /\ [][Next]_vars

-----------------------------------------------------------------------------
(* Rows are rows, of organizations and admins there are, and one           *)
(* membership at most is live (uniq_active_org_member).                    *)
TypeOK ==
  /\ orgs \subseteq Orgs /\ withHall \subseteq orgs
  /\ members \in Seq(Row)
  /\ known \subseteq Admins /\ token \subseteq known
  /\ request \in [Requests -> Request]
  /\ out \subseteq DOMAIN members
  /\ \A i \in DOMAIN members : members[i].org \in orgs /\ members[i].admin \in known
  /\ \A i, j \in DOMAIN members :
       members[i].org = members[j].org /\ members[i].admin = members[j].admin
         /\ Live(i) /\ Live(j) => i = j

(* "The owner must always remain an active member" (assertNotOrgOwner,     *)
(* completeOnboarding): whatever onboardings, invitations and updates      *)
(* race, who owns an organization is an active member in the owner's role. *)
OwnerIsMember ==
  \A o \in orgs : \E i \in RowsOf(o, Owner(o)) :
    members[i].status = "active" /\ members[i].role = "owner"

(* Whom an organization has turned out stays out until it lets them in     *)
(* again: an invitation sent before, and accepted later, does not          *)
(* (acceptInvite, removeMember, updateMember).                             *)
RemovedStaysOut == \A i \in out : ~Live(i)

(* Who owns an organization with a hall acts in one, however many other    *)
(* organizations they joined and in whatever order (resolveOrgContext,     *)
(* resolveOrgId).                                                          *)
ActsAtHome ==
  \A a \in Admins : (\E o \in withHall : Owner(o) = a) =>
    /\ ResolveOrgId(a) \in withHall
    /\ Owner(ResolveOrgId(a)) = a
=============================================================================
