------------------------- MODULE OrganizationProofs --------------------------
(***************************************************************************)
(* Proofs about an organization: who belongs to it (Team), and what its    *)
(* members may do (Permissions).                                           *)
(*                                                                         *)
(* The two share no variable, so each has a specification and an invariant *)
(* of its own.                                                             *)
(***************************************************************************)
EXTENDS Team, Permissions, WellFoundedInduction, TLAPS

-----------------------------------------------------------------------------
(***************************************************************************)
(* Proofs about Team, for any admins, names, requests and rows.            *)
(*                                                                         *)
(* A request looks for organizations and rows first and writes later.  The *)
(* inductive invariant says what of its findings still holds when it       *)
(* writes (RequestsFit); that an owner is resolved to their own            *)
(* organization needs the oldest of several rows, which is there because   *)
(* positions in a sequence are well-founded (Oldest).                      *)
(***************************************************************************)
(* What a request found earlier still holds when it writes.                *)
RequestsFit ==
  \A r \in Requests :
    /\ request[r].step \in {"onboard", "create"} =>
         /\ request[r].org \in Orgs /\ request[r].admin = Owner(request[r].org)
         /\ request[r].admin \in known
    /\ request[r].step \in {"revive", "insert", "join"} =>
         /\ request[r].org \in orgs /\ request[r].admin \in Admins
         /\ request[r].step # "join" => request[r].admin \in known

RowsFit == \A i \in DOMAIN members : members[i].org \in orgs /\ members[i].admin \in known

OneLive ==
  \A i, j \in DOMAIN members :
    members[i].org = members[j].org /\ members[i].admin = members[j].admin
      /\ Live(i) /\ Live(j) => i = j

TeamInv == TypeOK /\ RequestsFit /\ OwnerIsMember /\ RemovedStaysOut

-----------------------------------------------------------------------------
LEMMA IdleType == Idle \in Request /\ Idle.step = "idle"
  BY DEF Idle, Request, Steps

LEMMA TypeParts ==
  TypeOK <=> /\ orgs \subseteq Orgs /\ withHall \subseteq orgs
             /\ members \in Seq(Row)
             /\ known \subseteq Admins /\ token \subseteq known
             /\ request \in [Requests -> Request]
             /\ out \subseteq DOMAIN members
             /\ RowsFit /\ OneLive
  BY DEF TypeOK, RowsFit, OneLive

(* One request moves, the others stay.                                     *)
LEMMA RequestMoves ==
  ASSUME TeamInv, NEW r \in Requests, NEW step \in Steps,
         NEW o \in Orgs \cup {NoOrg}, NEW a \in Admins \cup {NoAdmin}, Goto(r, step, o, a)
  PROVE  /\ request' \in [Requests -> Request]
         /\ request'[r].step = step /\ request'[r].org = o /\ request'[r].admin = a
         /\ \A q \in Requests \ {r} : request'[q] = request[q]
  <1> DEFINE new == [step |-> step, org |-> o, admin |-> a]
  <1>1. new \in Request /\ new.step = step /\ new.org = o /\ new.admin = a
    BY DEF Request
  <1>2. request' = [request EXCEPT ![r] = new]
    BY DEF Goto
  <1> HIDE DEF new
  <1> QED BY <1>1, <1>2 DEF TeamInv, TypeOK

LEMMA RequestFinishes ==
  ASSUME TeamInv, NEW r \in Requests, Finish(r)
  PROVE  /\ request' \in [Requests -> Request] /\ request'[r] = Idle
         /\ \A q \in Requests \ {r} : request'[q] = request[q]
  BY IdleType DEF Finish, TeamInv, TypeOK

(* Requests that finish, or stay, fit whatever there is more of.           *)
LEMMA RequestsStillFit ==
  ASSUME TeamInv, orgs \subseteq orgs', known \subseteq known',
         \A r \in Requests : request'[r] \in {request[r], Idle}
  PROVE  RequestsFit'
  BY IdleType DEF TeamInv, RequestsFit

(* Owners keep the rows that make them active members.                     *)
LEMMA OwnersStay ==
  ASSUME TeamInv, orgs' = orgs,
         \A i \in DOMAIN members : OwnerRow(i) /\ members[i].status = "active" =>
           i \in DOMAIN members' /\ members'[i] = members[i]
  PROVE  OwnerIsMember'
  <1> SUFFICES ASSUME NEW o \in orgs
               PROVE  \E i \in RowsOf(o, Owner(o))' : members'[i].status = "active" /\ members'[i].role = "owner"
    BY DEF OwnerIsMember
  <1>1. PICK i \in RowsOf(o, Owner(o)) : members[i].status = "active" /\ members[i].role = "owner"
    BY DEF TeamInv, OwnerIsMember
  <1>2. i \in DOMAIN members' /\ members'[i] = members[i]
    BY <1>1 DEF RowsOf, OwnerRow
  <1> QED BY <1>1, <1>2 DEF RowsOf

(* A row is added for somebody without a live one.                         *)
LEMMA RowAdded ==
  ASSUME TeamInv, NEW row \in Row, members' = Append(members, row), out' = out,
         row.org \in orgs', row.admin \in known', orgs \subseteq orgs', known \subseteq known',
         \A i \in RowsOf(row.org, row.admin) : ~Live(i)
  PROVE  /\ members' \in Seq(Row) /\ RowsFit' /\ OneLive'
         /\ out' \subseteq DOMAIN members' /\ RemovedStaysOut'
         /\ Len(members) + 1 \in DOMAIN members' /\ members'[Len(members) + 1] = row
         /\ \A i \in DOMAIN members : i \in DOMAIN members' /\ members'[i] = members[i]
  <1>1. members \in Seq(Row) /\ out \subseteq DOMAIN members /\ RowsFit /\ OneLive /\ RemovedStaysOut
    BY TypeParts DEF TeamInv
  <1> DEFINE n == Len(members) + 1
  <1>2. /\ members' \in Seq(Row) /\ DOMAIN members' = DOMAIN members \cup {n} /\ n \notin DOMAIN members
        /\ members'[n] = row /\ \A i \in DOMAIN members : members'[i] = members[i]
    BY <1>1
  <1> HIDE DEF n
  <1>3. RowsFit'
    BY <1>1, <1>2 DEF RowsFit
  <1>4. OneLive'
    <2>1. ASSUME NEW i \in DOMAIN members, members[i].org = row.org, members[i].admin = row.admin
          PROVE  ~Live(i)
      BY <2>1 DEF RowsOf
    <2> QED BY <1>1, <1>2, <2>1 DEF OneLive, Live
  <1>5. out' \subseteq DOMAIN members' /\ RemovedStaysOut'
    BY <1>1, <1>2 DEF RemovedStaysOut, Live
  <1> QED BY <1>2, <1>3, <1>4, <1>5 DEF n

(* A row changes its status or its role.                                   *)
LEMMA RowChanged ==
  ASSUME TeamInv, NEW k \in DOMAIN members, NEW row \in Row,
         row.org = members[k].org, row.admin = members[k].admin,
         members' = [members EXCEPT ![k] = row],
         row.status = "removed" \/ MayBeLive(k) \/ row.status = members[k].status,
         orgs' = orgs, known' = known
  PROVE  /\ members' \in Seq(Row) /\ RowsFit' /\ OneLive'
         /\ DOMAIN members' = DOMAIN members /\ members'[k] = row
         /\ \A i \in DOMAIN members \ {k} : members'[i] = members[i]
  <1>1. members \in Seq(Row) /\ RowsFit /\ OneLive
    BY TypeParts DEF TeamInv
  <1>2. /\ members' \in Seq(Row) /\ DOMAIN members' = DOMAIN members /\ members'[k] = row
        /\ \A i \in DOMAIN members \ {k} : members'[i] = members[i]
    BY <1>1
  <1>3. RowsFit'
    BY <1>1, <1>2 DEF RowsFit
  <1>4. OneLive'
    <2> SUFFICES ASSUME NEW i \in DOMAIN members, NEW j \in DOMAIN members, i # j,
                        members'[i].org = members'[j].org, members'[i].admin = members'[j].admin,
                        members'[i].status # "removed", members'[j].status # "removed"
                 PROVE  FALSE
      BY <1>2 DEF OneLive, Live
    <2>1. members[i].org = members[j].org /\ members[i].admin = members[j].admin
      BY <1>2
    <2>2. CASE i # k /\ j # k
      BY <1>1, <1>2, <2>1, <2>2 DEF OneLive, Live
    <2>3. CASE (i = k \/ j = k) /\ row.status = members[k].status
      BY <1>1, <1>2, <2>1, <2>3 DEF OneLive, Live
    <2>4. CASE (i = k \/ j = k) /\ MayBeLive(k)
      BY <1>2, <2>1, <2>4 DEF MayBeLive, RowsOf, Live
    <2> QED BY <1>2, <2>2, <2>3, <2>4
  <1> QED BY <1>2, <1>3, <1>4

LEMMA TeamInit == Init => TeamInv
  <1> SUFFICES ASSUME Init PROVE TeamInv
    OBVIOUS
  <1>1. /\ orgs = {} /\ withHall = {} /\ members = <<>> /\ token = {} /\ out = {}
        /\ known \subseteq Admins /\ request \in [Requests -> Request]
        /\ \A r \in Requests : request[r] = Idle
    BY IdleType DEF Init
  <1>2. members \in Seq(Row) /\ DOMAIN members = {}
    BY <1>1
  <1>3. TypeOK
    BY <1>1, <1>2 DEF TypeOK
  <1>4. RequestsFit /\ OwnerIsMember /\ RemovedStaysOut
    BY <1>1, IdleType DEF RequestsFit, OwnerIsMember, RemovedStaysOut
  <1> QED BY <1>3, <1>4 DEF TeamInv

-----------------------------------------------------------------------------
(* A request that reads: only it changes.                                  *)
LEMMA ReadStep ==
  ASSUME TeamInv, UNCHANGED <<orgs, withHall, members, known, token, out>>,
         request' \in [Requests -> Request], RequestsFit'
  PROVE  TeamInv'
  <1>1. TypeOK'
    BY DEF TeamInv, TypeOK, Live
  <1>2. OwnerIsMember' /\ RemovedStaysOut'
    BY DEF TeamInv, OwnerIsMember, RemovedStaysOut, RowsOf, Live
  <1> QED BY <1>1, <1>2 DEF TeamInv

LEMMA OnboardCheckStep ==
  ASSUME TeamInv, NEW r \in Requests, NEW a \in Admins, NEW n \in Names, OnboardCheck(r, a, n)
  PROVE  TeamInv'
  <1>1. /\ a \in known /\ Goto(r, "onboard", <<a, n>>, a)
        /\ UNCHANGED <<orgs, withHall, members, known, token, out>>
    BY DEF OnboardCheck
  <1>2. <<a, n>> \in Orgs /\ Owner(<<a, n>>) = a
    BY DEF Orgs, Owner
  <1>3. /\ request' \in [Requests -> Request]
        /\ request'[r].step = "onboard" /\ request'[r].org = <<a, n>> /\ request'[r].admin = a
        /\ \A q \in Requests \ {r} : request'[q] = request[q]
    BY <1>1, <1>2, RequestMoves DEF Steps
  <1>4. RequestsFit'
    BY <1>1, <1>2, <1>3 DEF TeamInv, RequestsFit
  <1> QED BY <1>1, <1>3, <1>4, ReadStep

LEMMA OnboardResolveStep ==
  ASSUME TeamInv, NEW r \in Requests, OnboardResolve(r)
  PROVE  TeamInv'
  <1> DEFINE a == request[r].admin
             own == {o \in orgs : Owner(o) = a}
  <1>1. /\ request[r].step = "onboard" /\ UNCHANGED <<orgs, withHall, members, known, token, out>>
    BY DEF OnboardResolve, At
  <1>2. PICK o \in IF own = {} THEN {request[r].org} ELSE own : Goto(r, "create", o, a)
    BY DEF OnboardResolve
  <1>3. request[r].org \in Orgs /\ a = Owner(request[r].org) /\ a \in known /\ known \subseteq Admins
    BY <1>1 DEF TeamInv, RequestsFit, TypeOK
  <1>4. o \in Orgs /\ Owner(o) = a
    BY <1>2, <1>3 DEF TeamInv, TypeOK
  <1>5. /\ request' \in [Requests -> Request]
        /\ request'[r].step = "create" /\ request'[r].org = o /\ request'[r].admin = a
        /\ \A q \in Requests \ {r} : request'[q] = request[q]
    BY <1>2, <1>3, <1>4, RequestMoves DEF Steps
  <1>6. RequestsFit'
    BY <1>1, <1>3, <1>4, <1>5 DEF TeamInv, RequestsFit
  <1> QED BY <1>1, <1>5, <1>6, ReadStep

LEMMA InviteCheckStep ==
  ASSUME TeamInv, NEW r \in Requests, NEW o \in Orgs, NEW a \in Admins, InviteCheck(r, o, a)
  PROVE  TeamInv'
  <1> DEFINE step == IF a \in known THEN "revive" ELSE "join"
  <1>1. /\ o \in orgs /\ Goto(r, step, o, a) /\ UNCHANGED <<orgs, withHall, members, known, token, out>>
    BY DEF InviteCheck
  <1>2. step \in Steps /\ step \in {"revive", "join"} /\ (step # "join" => a \in known)
    BY DEF Steps
  <1> HIDE DEF step
  <1>3. /\ request' \in [Requests -> Request]
        /\ request'[r].step = step /\ request'[r].org = o /\ request'[r].admin = a
        /\ \A q \in Requests \ {r} : request'[q] = request[q]
    BY <1>1, <1>2, RequestMoves
  <1>4. RequestsFit'
    BY <1>1, <1>2, <1>3 DEF TeamInv, RequestsFit
  <1> QED BY <1>1, <1>3, <1>4, ReadStep

LEMMA InviteNothingStep ==
  ASSUME TeamInv, NEW r \in Requests, InviteNothingToRevive(r)
  PROVE  TeamInv'
  <1> DEFINE new == [request[r] EXCEPT !.step = "insert"]
  <1>1. /\ request[r].step = "revive" /\ request' = [request EXCEPT ![r] = new]
        /\ UNCHANGED <<orgs, withHall, members, known, token, out>>
    BY DEF InviteNothingToRevive, At, TeamInv, TypeOK
  <1>2. /\ new \in Request /\ new.step = "insert" /\ new.org = request[r].org
        /\ new.admin = request[r].admin
    BY DEF TeamInv, TypeOK, Request, Steps
  <1> HIDE DEF new
  <1>3. /\ request' \in [Requests -> Request] /\ request'[r] = new
        /\ \A q \in Requests \ {r} : request'[q] = request[q]
    BY <1>1, <1>2 DEF TeamInv, TypeOK
  <1>4. RequestsFit'
    BY <1>1, <1>2, <1>3 DEF TeamInv, RequestsFit
  <1> QED BY <1>1, <1>3, <1>4, ReadStep

LEMMA RequestFailsStep ==
  ASSUME TeamInv, NEW r \in Requests, RequestFails(r)
  PROVE  TeamInv'
  <1>1. Finish(r) /\ UNCHANGED <<orgs, withHall, members, known, token, out>>
    BY DEF RequestFails
  <1>2. /\ request' \in [Requests -> Request] /\ \A q \in Requests : request'[q] \in {request[q], Idle}
    BY <1>1, RequestFinishes
  <1>3. RequestsFit'
    BY <1>1, <1>2, RequestsStillFit
  <1> QED BY <1>1, <1>2, <1>3, ReadStep

-----------------------------------------------------------------------------
(* completeOnboarding's transaction: a new organization has its owner, an  *)
(* old one kept it.                                                        *)
LEMMA OnboardCommitStep ==
  ASSUME TeamInv, NEW r \in Requests, OnboardCommit(r)
  PROVE  TeamInv'
  <1>0. PICK o, a : o = request[r].org /\ a = request[r].admin
    OBVIOUS
  <1> DEFINE row == [org |-> o, admin |-> a, status |-> "active", role |-> "owner"]
  <1>1. /\ request[r].step = "create" /\ orgs' = orgs \cup {o} /\ withHall' = withHall \cup {o}
        /\ members' = WithOwner(o, a) /\ Finish(r) /\ UNCHANGED <<known, token, out>>
    BY <1>0 DEF OnboardCommit, At
  <1>2. /\ o \in Orgs /\ a = Owner(o) /\ a \in known /\ a \in Admins
    BY <1>0, <1>1 DEF TeamInv, RequestsFit, TypeOK
  <1>3. /\ row \in Row /\ row.org = o /\ row.admin = a /\ row.status = "active" /\ row.role = "owner"
    BY <1>2 DEF Row, Statuses, MemberRoles
  <1>4. members' = IF \E i \in RowsOf(o, a) : Live(i) THEN members ELSE Append(members, row)
    BY <1>1 DEF WithOwner
  <1> HIDE DEF row
  <1>5. /\ request' \in [Requests -> Request] /\ \A q \in Requests : request'[q] \in {request[q], Idle}
    BY <1>1, RequestFinishes
  <1>6. RequestsFit'
    BY <1>1, <1>5, RequestsStillFit
  <1>7. /\ members \in Seq(Row) /\ RowsFit /\ OneLive /\ orgs \subseteq Orgs /\ withHall \subseteq orgs
        /\ known \subseteq Admins /\ token \subseteq known /\ out \subseteq DOMAIN members
    BY TypeParts DEF TeamInv
  <1>8. CASE \E i \in RowsOf(o, a) : Live(i)
    <2>1. members' = members
      BY <1>4, <1>8
    <2>2. o \in orgs /\ orgs' = orgs
      BY <1>1, <1>7, <1>8 DEF RowsOf, RowsFit
    <2>3. RowsFit' /\ OneLive'
      BY <1>1, <1>7, <2>1, <2>2 DEF RowsFit, OneLive, Live
    <2>4. TypeOK'
      BY <1>1, <1>2, <1>5, <1>7, <2>1, <2>2, <2>3 DEF TypeOK, RowsFit, OneLive, Live
    <2>5. OwnerIsMember' /\ RemovedStaysOut'
      BY <1>1, <2>1, <2>2 DEF TeamInv, OwnerIsMember, RemovedStaysOut, RowsOf, Live
    <2> QED BY <1>6, <2>4, <2>5 DEF TeamInv
  <1>9. CASE ~\E i \in RowsOf(o, a) : Live(i)
    <2>1. members' = Append(members, row)
      BY <1>4, <1>9
    <2>2. /\ members' \in Seq(Row) /\ RowsFit' /\ OneLive'
          /\ out' \subseteq DOMAIN members' /\ RemovedStaysOut'
          /\ Len(members) + 1 \in DOMAIN members' /\ members'[Len(members) + 1] = row
          /\ \A i \in DOMAIN members : i \in DOMAIN members' /\ members'[i] = members[i]
      BY <1>1, <1>2, <1>3, <1>9, <2>1, RowAdded
    <2>3. TypeOK'
      BY <1>1, <1>2, <1>5, <1>7, <2>2 DEF TypeOK, RowsFit, OneLive, Live
    <2>4. OwnerIsMember'
      <3>1. ASSUME NEW p \in orgs
            PROVE  \E i \in RowsOf(p, Owner(p))' : members'[i].status = "active" /\ members'[i].role = "owner"
        <4>1. PICK i \in RowsOf(p, Owner(p)) : members[i].status = "active" /\ members[i].role = "owner"
          BY DEF TeamInv, OwnerIsMember
        <4> QED BY <4>1, <2>2 DEF RowsOf
      <3>2. Len(members) + 1 \in RowsOf(o, Owner(o))'
        BY <1>2, <1>3, <2>2 DEF RowsOf
      <3> QED BY <1>1, <1>3, <2>2, <3>1, <3>2 DEF OwnerIsMember
    <2> QED BY <1>6, <2>2, <2>3, <2>4 DEF TeamInv
  <1> QED BY <1>8, <1>9

(* Halls come and go.                                                      *)
LEMMA HallStep ==
  ASSUME TeamInv, NEW o \in Orgs, CreateHall(o) \/ DeleteHall(o)
  PROVE  TeamInv'
  <1>1. withHall' \subseteq orgs /\ UNCHANGED <<orgs, members, known, token, request, out>>
    BY DEF CreateHall, DeleteHall, TeamInv, TypeOK
  <1>2. TypeOK'
    BY <1>1 DEF TeamInv, TypeOK, Live
  <1>3. RequestsFit' /\ OwnerIsMember' /\ RemovedStaysOut'
    BY <1>1 DEF TeamInv, RequestsFit, OwnerIsMember, RemovedStaysOut, RowsOf, Live
  <1> QED BY <1>2, <1>3 DEF TeamInv

(* A new row beside the owners'.                                           *)
LEMMA RowAddedStep ==
  ASSUME TeamInv, NEW row \in Row, members' = Append(members, row), out' = out,
         UNCHANGED <<orgs, withHall>>, row.org \in orgs, row.admin \in known',
         known \subseteq known', known' \subseteq Admins, token' \subseteq known',
         \A i \in RowsOf(row.org, row.admin) : ~Live(i),
         request' \in [Requests -> Request],
         \A q \in Requests : request'[q] \in {request[q], Idle}
  PROVE  TeamInv'
  <1>1. /\ members' \in Seq(Row) /\ RowsFit' /\ OneLive'
        /\ out' \subseteq DOMAIN members' /\ RemovedStaysOut'
        /\ \A i \in DOMAIN members : i \in DOMAIN members' /\ members'[i] = members[i]
    BY RowAdded
  <1>2. TypeOK'
    BY <1>1 DEF TeamInv, TypeOK, RowsFit, OneLive, Live
  <1>3. RequestsFit'
    BY RequestsStillFit
  <1>4. OwnerIsMember'
    BY <1>1, OwnersStay
  <1> QED BY <1>1, <1>2, <1>3, <1>4 DEF TeamInv

LEMMA CreateMemberStep ==
  ASSUME TeamInv, NEW o \in Orgs, NEW a \in Admins, CreateMember(o, a)
  PROVE  TeamInv'
  <1> DEFINE row == [org |-> o, admin |-> a, status |-> "active", role |-> "other"]
  <1>1. /\ o \in orgs /\ a \notin known /\ known' = known \cup {a} /\ members' = Append(members, row)
        /\ UNCHANGED <<orgs, withHall, token, request, out>>
    BY DEF CreateMember
  <1>2. row \in Row /\ row.org = o /\ row.admin = a
    BY DEF Row, Statuses, MemberRoles
  <1> HIDE DEF row
  <1>3. /\ known \subseteq Admins /\ token \subseteq known /\ request \in [Requests -> Request] /\ RowsFit
    BY TypeParts DEF TeamInv
  <1>4. RowsOf(o, a) = {}
    BY <1>1, <1>3 DEF RowsOf, RowsFit
  <1> QED BY <1>1, <1>2, <1>3, <1>4, RowAddedStep

LEMMA InviteInsertStep ==
  ASSUME TeamInv, NEW r \in Requests, InviteInsert(r)
  PROVE  TeamInv'
  <1> DEFINE o == request[r].org
             a == request[r].admin
             row == [org |-> o, admin |-> a, status |-> "invited", role |-> "other"]
  <1>1. /\ request[r].step \in {"insert", "join"} /\ \A i \in RowsOf(o, a) : ~Live(i)
        /\ members' = Append(members, row) /\ known' = known \cup {a} /\ token' = token \cup {a}
        /\ Finish(r) /\ UNCHANGED <<orgs, withHall, out>>
    BY DEF InviteInsert, At
  <1>2. o \in orgs /\ a \in Admins /\ o \in Orgs /\ known \subseteq Admins /\ token \subseteq known
    BY <1>1 DEF TeamInv, RequestsFit, TypeOK
  <1>3. row \in Row /\ row.org = o /\ row.admin = a
    BY <1>2 DEF Row, Statuses, MemberRoles
  <1> HIDE DEF row, o, a
  <1>4. /\ request' \in [Requests -> Request] /\ \A q \in Requests : request'[q] \in {request[q], Idle}
    BY <1>1, RequestFinishes
  <1> QED BY <1>1, <1>2, <1>3, <1>4, RowAddedStep

(* A removed row is nobody's ownership.                                    *)
LEMMA InviteReviveStep ==
  ASSUME TeamInv, NEW r \in Requests, InviteRevive(r)
  PROVE  TeamInv'
  <1> DEFINE a == request[r].admin
  <1>1. PICK i \in RowsOf(request[r].org, a) :
          /\ ~Live(i) /\ MayBeLive(i)
          /\ members' = [members EXCEPT ![i].status = "invited", ![i].role = "other"]
          /\ out' = out \ {i}
    BY DEF InviteRevive
  <1>2. /\ request[r].step = "revive" /\ token' = token \cup {a} /\ Finish(r)
        /\ UNCHANGED <<orgs, withHall, known>>
    BY DEF InviteRevive, At
  <1>3. a \in known
    BY <1>2 DEF TeamInv, RequestsFit
  <1> DEFINE row == [members[i] EXCEPT !.status = "invited", !.role = "other"]
  <1>4. i \in DOMAIN members /\ members \in Seq(Row)
    BY <1>1 DEF RowsOf, TeamInv, TypeOK
  <1>5. members[i] \in Row
    BY <1>4
  <1>6. members' = [members EXCEPT ![i] = row]
    BY <1>1, <1>4, <1>5 DEF Row
  <1>7. row \in Row /\ row.org = members[i].org /\ row.admin = members[i].admin
    BY <1>5 DEF Row, Statuses, MemberRoles
  <1> HIDE DEF row, a
  <1>8. /\ members' \in Seq(Row) /\ RowsFit' /\ OneLive' /\ DOMAIN members' = DOMAIN members
        /\ \A j \in DOMAIN members \ {i} : members'[j] = members[j]
    BY <1>1, <1>2, <1>4, <1>6, <1>7, RowChanged
  <1>9. /\ request' \in [Requests -> Request] /\ \A q \in Requests : request'[q] \in {request[q], Idle}
    BY <1>2, RequestFinishes
  <1>10. TypeOK'
    BY <1>1, <1>2, <1>3, <1>8, <1>9 DEF TeamInv, TypeOK, RowsFit, OneLive, Live
  <1>11. RequestsFit'
    BY <1>2, <1>9, RequestsStillFit
  <1>12. OwnerIsMember'
    <2>1. members[i].status = "removed"
      BY <1>1 DEF Live
    <2> QED BY <1>2, <1>8, <2>1, OwnersStay
  <1>13. RemovedStaysOut'
    BY <1>1, <1>8 DEF TeamInv, TypeOK, RemovedStaysOut, Live
  <1> QED BY <1>10, <1>11, <1>12, <1>13 DEF TeamInv

(* Only invitations are accepted: no row that was turned out comes back.   *)
LEMMA AcceptInviteStep ==
  ASSUME TeamInv, NEW a \in Admins, AcceptInvite(a)
  PROVE  TeamInv'
  <1>1. /\ members' = Accepted(a) /\ token' \subseteq token /\ UNCHANGED <<orgs, withHall, known, request, out>>
    BY DEF AcceptInvite
  <1>2. /\ members \in Seq(Row) /\ RowsFit /\ OneLive /\ token \subseteq known
    BY TypeParts DEF TeamInv
  <1>3. \A i \in DOMAIN members : members[i] \in Row
    BY <1>2
  <1>4. ASSUME NEW i \in DOMAIN members
        PROVE  /\ [members[i] EXCEPT !.status = "active"] \in Row
               /\ [members[i] EXCEPT !.status = "active"].org = members[i].org
               /\ [members[i] EXCEPT !.status = "active"].admin = members[i].admin
               /\ [members[i] EXCEPT !.status = "active"].status = "active"
    BY <1>3 DEF Row, Statuses
  <1>5. /\ members' \in Seq(Row) /\ DOMAIN members' = DOMAIN members
    <2>1. \A i \in DOMAIN members : members'[i] \in Row
      BY <1>1, <1>3, <1>4 DEF Accepted
    <2>2. DOMAIN members' = 1 .. Len(members) /\ members' = [i \in 1 .. Len(members) |-> members'[i]]
      BY <1>1, <1>2 DEF Accepted
    <2>3. Len(members) \in Nat /\ DOMAIN members = 1 .. Len(members)
      BY <1>2
    <2> QED BY <2>1, <2>2, <2>3
  <1>6. ASSUME NEW i \in DOMAIN members
        PROVE  /\ members'[i].org = members[i].org /\ members'[i].admin = members[i].admin
               /\ \/ members'[i] = members[i]
                  \/ members[i].status = "invited" /\ members'[i].status = "active"
    BY <1>1, <1>4 DEF Accepted
  <1>7. RowsFit' /\ OneLive'
    BY <1>1, <1>2, <1>5, <1>6 DEF RowsFit, OneLive, Live
  <1>8. TypeOK'
    BY <1>1, <1>2, <1>5, <1>7 DEF TeamInv, TypeOK, RowsFit, OneLive, Live
  <1>9. RequestsFit'
    BY <1>1, RequestsStillFit
  <1>10. OwnerIsMember'
    BY <1>1, <1>5, <1>6, OwnersStay
  <1>11. RemovedStaysOut'
    BY <1>1, <1>6 DEF TeamInv, TypeOK, RemovedStaysOut, Live
  <1> QED BY <1>8, <1>9, <1>10, <1>11 DEF TeamInv

LEMMA InviteLostStep ==
  ASSUME TeamInv, NEW a \in Admins, InviteLost(a)
  PROVE  TeamInv'
  <1>1. token' \subseteq token /\ UNCHANGED <<orgs, withHall, members, known, request, out>>
    BY DEF InviteLost
  <1>2. TypeOK'
    BY <1>1 DEF TeamInv, TypeOK, Live
  <1>3. RequestsFit' /\ OwnerIsMember' /\ RemovedStaysOut'
    BY <1>1 DEF TeamInv, RequestsFit, OwnerIsMember, RemovedStaysOut, RowsOf, Live
  <1> QED BY <1>2, <1>3 DEF TeamInv

-----------------------------------------------------------------------------
(* updateMember and removeMember: any row but an owner's.                  *)
LEMMA RowChangedStep ==
  ASSUME TeamInv, NEW k \in DOMAIN members, NEW row \in Row, MayModify(k),
         row.org = members[k].org, row.admin = members[k].admin,
         members' = [members EXCEPT ![k] = row],
         row.status = "removed" \/ MayBeLive(k) \/ row.status = members[k].status,
         k \in out' => row.status = "removed", out' \subseteq out \cup {k},
         UNCHANGED <<orgs, withHall, known, token, request>>
  PROVE  TeamInv'
  <1>1. /\ members' \in Seq(Row) /\ RowsFit' /\ OneLive' /\ DOMAIN members' = DOMAIN members
        /\ members'[k] = row /\ \A j \in DOMAIN members \ {k} : members'[j] = members[j]
    BY RowChanged
  <1>2. TypeOK'
    BY <1>1 DEF TeamInv, TypeOK, RowsFit, OneLive, Live
  <1>3. RequestsFit'
    BY RequestsStillFit
  <1>4. OwnerIsMember'
    BY <1>1, OwnersStay DEF MayModify
  <1>5. RemovedStaysOut'
    BY <1>1 DEF TeamInv, TypeOK, RemovedStaysOut, Live
  <1> QED BY <1>2, <1>3, <1>4, <1>5 DEF TeamInv

LEMMA UpdateStep ==
  ASSUME TeamInv, NEW k \in DOMAIN members,
         (\E s \in Statuses : UpdateStatus(k, s)) \/ (\E part \in MemberRoles : UpdateMemberRole(k, part)) \/ RemoveMember(k)
  PROVE  TeamInv'
  <1>1. members \in Seq(Row)
    BY DEF TeamInv, TypeOK
  <1>2. members[k] \in Row
    BY <1>1
  <1>3. ASSUME NEW s \in Statuses
        PROVE  /\ [members[k] EXCEPT !.status = s] \in Row
               /\ [members[k] EXCEPT !.status = s].org = members[k].org
               /\ [members[k] EXCEPT !.status = s].admin = members[k].admin
               /\ [members[k] EXCEPT !.status = s].status = s
               /\ [members EXCEPT ![k].status = s] = [members EXCEPT ![k] = [members[k] EXCEPT !.status = s]]
    BY <1>2 DEF Row
  <1>4. CASE \E s \in Statuses : UpdateStatus(k, s)
    <2>1. PICK s \in Statuses : UpdateStatus(k, s)
      BY <1>4
    <2> DEFINE row == [members[k] EXCEPT !.status = s]
    <2>2. /\ row \in Row /\ row.org = members[k].org /\ row.admin = members[k].admin /\ row.status = s
          /\ members' = [members EXCEPT ![k] = row]
      BY <1>3, <2>1 DEF UpdateStatus
    <2> HIDE DEF row
    <2>3. /\ MayModify(k) /\ (s # "removed" => MayBeLive(k))
          /\ k \in out' => s = "removed"
          /\ out' \subseteq out \cup {k} /\ UNCHANGED <<orgs, withHall, known, token, request>>
      BY <2>1 DEF UpdateStatus
    <2> QED BY <2>2, <2>3, RowChangedStep
  <1>5. CASE RemoveMember(k)
    <2> DEFINE row == [members[k] EXCEPT !.status = "removed"]
    <2>1. /\ row \in Row /\ row.org = members[k].org /\ row.admin = members[k].admin /\ row.status = "removed"
          /\ members' = [members EXCEPT ![k] = row]
      BY <1>3, <1>5 DEF RemoveMember, Statuses
    <2> HIDE DEF row
    <2>2. /\ MayModify(k) /\ out' \subseteq out \cup {k}
          /\ UNCHANGED <<orgs, withHall, known, token, request>>
      BY <1>5 DEF RemoveMember
    <2> QED BY <2>1, <2>2, RowChangedStep
  <1>6. CASE \E part \in MemberRoles : UpdateMemberRole(k, part)
    <2>1. PICK part \in MemberRoles : UpdateMemberRole(k, part)
      BY <1>6
    <2> DEFINE row == [members[k] EXCEPT !.role = part]
    <2>2. /\ row \in Row /\ row.org = members[k].org /\ row.admin = members[k].admin
          /\ row.status = members[k].status /\ members' = [members EXCEPT ![k] = row]
      BY <1>2, <2>1 DEF UpdateMemberRole, Row
    <2> HIDE DEF row
    <2>3. MayModify(k) /\ UNCHANGED <<orgs, withHall, known, token, request, out>>
      BY <2>1 DEF UpdateMemberRole
    <2>4. k \in out' => row.status = "removed"
      BY <2>2, <2>3 DEF TeamInv, RemovedStaysOut, Live
    <2> QED BY <2>2, <2>3, <2>4, RowChangedStep
  <1> QED BY <1>4, <1>5, <1>6

LEMMA TeamStep == TeamInv /\ [Next]_vars => TeamInv'
  <1> SUFFICES ASSUME TeamInv, [Next]_vars PROVE TeamInv'
    OBVIOUS
  <1>1. ASSUME NEW r \in Requests, CompleteOnboarding(r) \/ RequestFails(r) PROVE TeamInv'
    BY <1>1, OnboardCheckStep, OnboardResolveStep, OnboardCommitStep, RequestFailsStep DEF CompleteOnboarding
  <1>2. ASSUME NEW r \in Requests, InviteMember(r) PROVE TeamInv'
    BY <1>2, InviteCheckStep, InviteReviveStep, InviteNothingStep, InviteInsertStep DEF InviteMember
  <1>3. CASE \E o \in Orgs : CreateHall(o) \/ DeleteHall(o) \/ \E a \in Admins : CreateMember(o, a)
    BY <1>3, HallStep, CreateMemberStep
  <1>4. CASE \E a \in Admins : AcceptInvite(a) \/ InviteLost(a)
    BY <1>4, AcceptInviteStep, InviteLostStep
  <1>5. CASE \E i \in DOMAIN members : \/ \E s \in Statuses : UpdateStatus(i, s)
                                       \/ \E part \in MemberRoles : UpdateMemberRole(i, part)
                                       \/ RemoveMember(i)
    BY <1>5, UpdateStep
  <1>6. CASE UNCHANGED vars
    <2>1. request' \in [Requests -> Request] /\ RequestsFit'
      BY <1>6 DEF vars, TeamInv, TypeOK, RequestsFit
    <2> QED BY <1>6, <2>1, ReadStep DEF vars
  <1> QED BY <1>1, <1>2, <1>3, <1>4, <1>5, <1>6 DEF Next

LEMMA TeamInvariant == Spec => []TeamInv
  BY TeamInit, TeamStep, PTL DEF Spec

-----------------------------------------------------------------------------
(* The library's induction theorems take an operator; its fact about < on  *)
(* the naturals as a set does not.                                         *)
LEMMA Oldest ==
  ASSUME NEW S \in SUBSET Nat, S # {}
  PROVE  \E i \in S : \A j \in S \ {i} : i < j
  <1> DEFINE Less == {x \in Nat \X Nat : x[1] < x[2]}
  <1>1. IsWellFoundedOn(Less, Nat)
    BY NatLessThanWellFounded DEF OpToRel
  <1>2. \A i, j \in Nat : j < i => <<j, i>> \in Less
    OBVIOUS
  <1> HIDE DEF Less
  <1>3. PICK i \in S : \A j \in S : <<j, i>> \notin Less
    BY <1>1, WFMin
  <1>4. \A j \in S : ~(j < i)
    BY <1>2, <1>3
  <1> QED BY <1>4

(* There is a membership that outranks an admin's others, and of one who   *)
(* owns a hall it is their own: hall first, then ownership, then age.      *)
LEMMA OwnerResolves ==
  ASSUME TeamInv, NEW a \in Admins, NEW h \in withHall, Owner(h) = a
  PROVE  ResolveOrgId(a) \in withHall /\ Owner(ResolveOrgId(a)) = a
  <1> DEFINE Home == {i \in Active(a) : HasHall(i) /\ OwnerRow(i)}
  <1>1. PICK k \in RowsOf(h, a) : members[k].status = "active"
    BY DEF TeamInv, TypeOK, OwnerIsMember
  <1>2. k \in Home
    BY <1>1 DEF RowsOf, Active, HasHall, OwnerRow
  <1>3. DOMAIN members \subseteq Nat
    BY DEF TeamInv, TypeOK
  <1>4. PICK i \in Home : \A j \in Home \ {i} : i < j
    <2>1. Home \in SUBSET Nat
      BY <1>3 DEF Active
    <2> HIDE DEF Home
    <2> QED BY <1>2, <2>1, Oldest
  <1>5. i \in Active(a) /\ \A j \in Active(a) \ {i} : Outranks(i, j)
    BY <1>4 DEF Outranks
  <1> DEFINE first == CHOOSE f \in Active(a) : \A j \in Active(a) \ {f} : Outranks(f, j)
  <1>6. first \in Active(a) /\ \A j \in Active(a) \ {first} : Outranks(first, j)
    BY <1>5
  <1>7. ResolveOrgId(a) = members[first].org
    BY <1>5 DEF ResolveOrgId
  <1> HIDE DEF first
  <1>8. HasHall(first) /\ OwnerRow(first)
    <2>1. CASE first = i
      BY <1>4, <2>1
    <2>2. CASE first # i
      <3>1. Outranks(first, i)
        BY <1>5, <1>6, <2>2
      <3> QED BY <1>4, <3>1 DEF Outranks
    <2> QED BY <2>1, <2>2
  <1> QED BY <1>6, <1>7, <1>8 DEF HasHall, OwnerRow, Active

-----------------------------------------------------------------------------
(* Rows are rows, and one membership of an admin at most is live.          *)
THEOREM TeamTypeCorrect == Spec => []TypeOK
  <1>1. TeamInv => TypeOK
    BY DEF TeamInv
  <1> QED BY <1>1, TeamInvariant, PTL

(* Whatever races, an organization's owner is an active member of it.      *)
THEOREM OwnerStaysMember == Spec => []OwnerIsMember
  <1>1. TeamInv => OwnerIsMember
    BY DEF TeamInv
  <1> QED BY <1>1, TeamInvariant, PTL

(* A row that was turned out is live again only when it was let in again.  *)
THEOREM TurnedOutStaysOut == Spec => []RemovedStaysOut
  <1>1. TeamInv => RemovedStaysOut
    BY DEF TeamInv
  <1> QED BY <1>1, TeamInvariant, PTL

(* Who owns an organization with a hall acts in one of their own.          *)
THEOREM OwnerActsAtHome == Spec => []ActsAtHome
  <1>1. TeamInv => ActsAtHome
    BY OwnerResolves DEF ActsAtHome
  <1> QED BY <1>1, TeamInvariant, PTL

-----------------------------------------------------------------------------
(***************************************************************************)
(* Proofs about Permissions, for any members, roles and permissions.       *)
(*                                                                         *)
(* A permission is granted by an edit that read it, from the cache or the  *)
(* database, some statements before.  The inductive invariant says that    *)
(* what is in force (ForceIsHeld), cached (CacheWasHeld) or read           *)
(* (ReadWasHeld) was held at some time.                                    *)
(***************************************************************************)
(* Whatever is in force, cached, or read by an edit, was held.             *)
WasHeld(a, perms) == \A k \in perms : <<a, k>> \in held

ForceIsHeld == \A a \in Members : WasHeld(a, InForce(a))
CacheWasHeld == \A a \in Members : cache[a].filled => WasHeld(a, cache[a].perms)
ReadWasHeld == \A r \in Edits :
  edit[r].step \in {"fill", "replace", "commit"} => WasHeld(edit[r].who, edit[r].perms)

PermissionsInv == RoleTypeOK /\ CacheFollowsDatabase /\ ForceIsHeld /\ CacheWasHeld /\ ReadWasHeld

-----------------------------------------------------------------------------
LEMMA NoEditType == NoEdit \in EditState /\ NoEdit.step = "idle"
  BY PermissionsAssumption DEF NoEdit, EditState, EditSteps

LEMMA EmptyType == Empty \in Entry /\ ~Empty.filled
  BY DEF Empty, Entry

LEMMA InForceType ==
  ASSUME RoleTypeOK, NEW a \in Members
  PROVE  InForce(a) \subseteq Perms
  BY DEF RoleTypeOK, InForce, Role, Member

(* One edit moves, the others stay.                                        *)
LEMMA EditMoves ==
  ASSUME edit \in [Edits -> EditState], NEW r \in Edits, NEW new \in EditState,
         edit' = [edit EXCEPT ![r] = new]
  PROVE  /\ edit' \in [Edits -> EditState] /\ edit'[r] = new
         /\ \A q \in Edits \ {r} : edit'[q] = edit[q]
  OBVIOUS

LEMMA DroppedIsEmpty ==
  ASSUME cache \in [Members -> Entry], NEW who, cache' = Dropped(who)
  PROVE  /\ cache' \in [Members -> Entry]
         /\ \A a \in Members : cache'[a].filled => cache'[a] = cache[a] /\ a \notin who
  BY EmptyType DEF Dropped

LEMMA PermissionsInit == RoleInit => PermissionsInv
  <1> SUFFICES ASSUME RoleInit PROVE PermissionsInv
    OBVIOUS
  <1>1. /\ cache = [a \in Members |-> Empty] /\ edit = [r \in Edits |-> NoEdit]
        /\ uncleared = {} /\ late = {} /\ held = {Boss} \X Perms
        /\ role = [p \in Roles |-> [exists |-> p \in SystemRoles, version |-> 1,
                                    perms |-> IF p = OwnerRole THEN Perms
                                              ELSE IF p \in SystemRoles THEN Common ELSE {}]]
    BY DEF RoleInit
  <1>2. PICK s \in SystemRoles :
          member = [a \in Members |-> IF a = Boss THEN [status |-> "active", role |-> OwnerRole]
                                      ELSE [status |-> "invited", role |-> s]]
    BY DEF RoleInit
  <1>3. role \in [Roles -> Role] /\ \A p \in SystemRoles : role[p].exists
    <2>1. 1 \in 1 .. MaxVersion
      BY PermissionsAssumption
    <2>2. \A p \in Roles : [exists |-> p \in SystemRoles, version |-> 1,
                            perms |-> IF p = OwnerRole THEN Perms
                                      ELSE IF p \in SystemRoles THEN Common ELSE {}] \in Role
      BY <2>1, PermissionsAssumption DEF Role
    <2> QED BY <1>1, <2>2, PermissionsAssumption
  <1>4. /\ member \in [Members -> Member] /\ \A a \in Members : member[a].role \in SystemRoles
        /\ \A a \in Members : member[a].status = "active" => a = Boss
    BY <1>2, PermissionsAssumption DEF Member
  <1>5. (\A a \in Members : cache[a] = Empty) /\ (\A r \in Edits : edit[r] = NoEdit)
    BY <1>1
  <1>6. RoleTypeOK
    BY <1>1, <1>3, <1>4, NoEditType, EmptyType, PermissionsAssumption DEF RoleTypeOK
  <1>7. CacheFollowsDatabase /\ CacheWasHeld /\ ReadWasHeld
    BY <1>5, NoEditType, EmptyType DEF CacheFollowsDatabase, Stale, CacheWasHeld, ReadWasHeld
  <1>8. ForceIsHeld
    BY <1>1, <1>4, <1>6, InForceType DEF ForceIsHeld, WasHeld, InForce
  <1> QED BY <1>6, <1>7, <1>8 DEF PermissionsInv

-----------------------------------------------------------------------------
(* The steps of an edit that change neither roles nor members.             *)

(* What is known stays known while the history grows.                      *)
LEMMA EditOnly ==
  ASSUME PermissionsInv, NEW r \in Edits, NEW new \in EditState,
         edit' = [edit EXCEPT ![r] = new],
         new.step \in {"fill", "replace", "commit"} => WasHeld(new.who, new.perms),
         UNCHANGED <<role, member, cache, uncleared, late, held>>
  PROVE  PermissionsInv'
  <1>1. /\ edit' \in [Edits -> EditState] /\ edit'[r] = new
        /\ \A q \in Edits \ {r} : edit'[q] = edit[q]
    BY EditMoves DEF PermissionsInv, RoleTypeOK
  <1>2. RoleTypeOK'
    BY <1>1 DEF PermissionsInv, RoleTypeOK
  <1>3. CacheFollowsDatabase' /\ ForceIsHeld' /\ CacheWasHeld'
    BY DEF PermissionsInv, CacheFollowsDatabase, Stale, ForceIsHeld, CacheWasHeld, WasHeld, InForce
  <1>4. ReadWasHeld'
    BY <1>1 DEF PermissionsInv, ReadWasHeld, WasHeld
  <1> QED BY <1>2, <1>3, <1>4 DEF PermissionsInv

LEMMA EditBeginsStep ==
  ASSUME PermissionsInv, NEW r \in Edits, NEW a \in Members, NEW p \in Roles, EditBegins(r, a, p)
  PROVE  PermissionsInv'
  <1>1. PICK step \in {"look", "replace"} :
          /\ edit' = [edit EXCEPT ![r] = [NoEdit EXCEPT !.step = step, !.who = a, !.role = p]]
          /\ UNCHANGED <<role, member, cache, uncleared, late, held>>
    BY DEF EditBegins
  <1> DEFINE new == [NoEdit EXCEPT !.step = step, !.who = a, !.role = p]
  <1>2. new \in EditState /\ new.perms = {}
    BY NoEditType DEF EditState, EditSteps, NoEdit
  <1>3. edit' = [edit EXCEPT ![r] = new] /\ UNCHANGED <<role, member, cache, uncleared, late, held>>
    BY <1>1
  <1> HIDE DEF new
  <1>4. WasHeld(new.who, new.perms)
    BY <1>2 DEF WasHeld
  <1> QED BY <1>2, <1>3, <1>4, EditOnly

LEMMA LookInCacheStep ==
  ASSUME PermissionsInv, NEW r \in Edits, LookInCache(r)
  PROVE  PermissionsInv'
  <1> DEFINE entry == cache[edit[r].who]
             new == [edit[r] EXCEPT !.step = "replace", !.perms = entry.perms]
  <1>1. /\ edit' = [edit EXCEPT ![r] = new] /\ entry.filled
        /\ UNCHANGED <<role, member, cache, uncleared, late, held>>
    BY DEF LookInCache, PermissionsInv, RoleTypeOK
  <1>2. edit[r] \in EditState /\ edit[r].who \in Members /\ entry.perms \in SUBSET Perms
    BY DEF PermissionsInv, RoleTypeOK, EditState, Entry
  <1>3. new \in EditState /\ new.who = edit[r].who /\ new.perms = entry.perms
    BY <1>2 DEF EditState, EditSteps
  <1>4. WasHeld(new.who, new.perms)
    BY <1>1, <1>2, <1>3 DEF PermissionsInv, CacheWasHeld
  <1> HIDE DEF new, entry
  <1> QED BY <1>1, <1>3, <1>4, EditOnly

LEMMA LookInDatabaseStep ==
  ASSUME PermissionsInv, NEW r \in Edits, LookInDatabase(r)
  PROVE  PermissionsInv'
  <1> DEFINE a == edit[r].who
             new == [edit[r] EXCEPT !.step = "fill", !.perms = InForce(a)]
  <1>1. edit' = [edit EXCEPT ![r] = new] /\ UNCHANGED <<role, member, cache, uncleared, late, held>>
    BY DEF LookInDatabase, PermissionsInv, RoleTypeOK
  <1>2. edit[r] \in EditState /\ a \in Members
    BY DEF PermissionsInv, RoleTypeOK, EditState
  <1>3. InForce(a) \in SUBSET Perms
    BY <1>2, InForceType DEF PermissionsInv
  <1>4. new \in EditState /\ new.who = a /\ new.perms = InForce(a)
    BY <1>2, <1>3 DEF EditState, EditSteps
  <1>5. WasHeld(new.who, new.perms)
    BY <1>2, <1>4 DEF PermissionsInv, ForceIsHeld
  <1> HIDE DEF new, a
  <1> QED BY <1>1, <1>4, <1>5, EditOnly

(* What another change overtook is late.                                   *)
LEMMA FillCacheStep ==
  ASSUME PermissionsInv, NEW r \in Edits, FillCache(r)
  PROVE  PermissionsInv'
  <1> DEFINE a == edit[r].who
             perms == edit[r].perms
             entry == [filled |-> TRUE, perms |-> perms]
             new == [edit[r] EXCEPT !.step = "replace"]
  <1>1. /\ cache' = [cache EXCEPT ![a] = entry] /\ edit' = [edit EXCEPT ![r] = new]
        /\ late' = IF perms = InForce(a) THEN late \ {a} ELSE late \cup {a}
        /\ edit[r].step = "fill" /\ UNCHANGED <<role, member, uncleared, held>>
    BY DEF FillCache, EditAt, PermissionsInv, RoleTypeOK
  <1>2. edit[r] \in EditState /\ a \in Members /\ perms \in SUBSET Perms
    BY DEF PermissionsInv, RoleTypeOK, EditState
  <1>3. new \in EditState /\ new.who = a /\ new.perms = perms
    BY <1>2 DEF EditState, EditSteps
  <1>4. entry \in Entry /\ entry.filled /\ entry.perms = perms
    BY <1>2 DEF Entry
  <1>5. WasHeld(a, perms)
    BY <1>1 DEF PermissionsInv, ReadWasHeld
  <1> HIDE DEF new, entry, a, perms
  <1>6. /\ edit' \in [Edits -> EditState] /\ edit'[r] = new
        /\ \A q \in Edits \ {r} : edit'[q] = edit[q]
    BY <1>1, <1>3, EditMoves DEF PermissionsInv, RoleTypeOK
  <1>7. /\ cache' \in [Members -> Entry] /\ cache'[a] = entry
        /\ \A b \in Members \ {a} : cache'[b] = cache[b]
    BY <1>1, <1>2, <1>4 DEF PermissionsInv, RoleTypeOK
  <1>8. \A b \in Members : InForce(b)' = InForce(b)
    BY <1>1 DEF InForce
  <1>9. RoleTypeOK'
    BY <1>1, <1>2, <1>6, <1>7 DEF PermissionsInv, RoleTypeOK
  <1>10. CacheFollowsDatabase'
    <2> SUFFICES ASSUME NEW b \in Members, cache'[b].filled, cache'[b].perms # InForce(b)
                 PROVE  b \in uncleared' \cup late'
      BY <1>8 DEF CacheFollowsDatabase, Stale
    <2>1. CASE b = a
      BY <1>1, <1>4, <1>7, <2>1
    <2>2. CASE b # a
      BY <1>1, <1>7, <2>2 DEF PermissionsInv, CacheFollowsDatabase, Stale
    <2> QED BY <2>1, <2>2
  <1>11. ForceIsHeld'
    BY <1>1, <1>8 DEF PermissionsInv, ForceIsHeld, WasHeld
  <1>12. CacheWasHeld' /\ ReadWasHeld'
    BY <1>1, <1>3, <1>4, <1>5, <1>6, <1>7 DEF PermissionsInv, CacheWasHeld, ReadWasHeld, WasHeld
  <1> QED BY <1>9, <1>10, <1>11, <1>12 DEF PermissionsInv

LEMMA ReplaceStep ==
  ASSUME PermissionsInv, NEW r \in Edits, ReplacePermissions(r)
  PROVE  PermissionsInv'
  <1> DEFINE version == role[edit[r].role].version
             new == [edit[r] EXCEPT !.step = "commit", !.version = version]
  <1>1. /\ edit' = [edit EXCEPT ![r] = new] /\ edit[r].step = "replace"
        /\ UNCHANGED <<role, member, cache, uncleared, late, held>>
    BY DEF ReplacePermissions, EditAt, PermissionsInv, RoleTypeOK
  <1>2. edit[r] \in EditState /\ edit[r].role \in Roles
    BY DEF PermissionsInv, RoleTypeOK, EditState
  <1>3. version \in 0 .. MaxVersion
    BY <1>2, PermissionsAssumption DEF PermissionsInv, RoleTypeOK, Role
  <1>4. new \in EditState /\ new.who = edit[r].who /\ new.perms = edit[r].perms
    BY <1>2, <1>3 DEF EditState, EditSteps
  <1>5. WasHeld(new.who, new.perms)
    BY <1>1, <1>4 DEF PermissionsInv, ReadWasHeld
  <1> HIDE DEF new, version
  <1> QED BY <1>1, <1>4, <1>5, EditOnly

LEMMA EditFailsStep ==
  ASSUME PermissionsInv, NEW r \in Edits, EditFails(r)
  PROVE  PermissionsInv'
  BY NoEditType, EditOnly DEF EditFails

-----------------------------------------------------------------------------
(* Entries that go: nothing becomes stale.                                 *)
LEMMA CacheDrops ==
  ASSUME PermissionsInv, NEW who, cache' = Dropped(who), late' = late \ who,
         UNCHANGED <<role, member, held>>, uncleared' \in {uncleared, uncleared \ who},
         \A r \in Edits : edit'[r] \in {edit[r], NoEdit},
         edit' \in [Edits -> EditState]
  PROVE  PermissionsInv'
  <1>1. /\ cache' \in [Members -> Entry]
        /\ \A a \in Members : cache'[a].filled => cache'[a] = cache[a] /\ a \notin who
    BY DroppedIsEmpty DEF PermissionsInv, RoleTypeOK
  <1>2. RoleTypeOK'
    BY <1>1 DEF PermissionsInv, RoleTypeOK
  <1>3. CacheFollowsDatabase' /\ ForceIsHeld' /\ CacheWasHeld'
    BY <1>1 DEF PermissionsInv, CacheFollowsDatabase, Stale, ForceIsHeld, CacheWasHeld, WasHeld, InForce
  <1>4. ReadWasHeld'
    BY NoEditType DEF PermissionsInv, ReadWasHeld, WasHeld
  <1> QED BY <1>2, <1>3, <1>4 DEF PermissionsInv

LEMMA DropSteps ==
  ASSUME PermissionsInv,
         (\E a \in Members : EntryExpires(a)) \/ ClearPermissionCache \/ Restart
  PROVE  PermissionsInv'
  <1>1. edit \in [Edits -> EditState] /\ uncleared \subseteq Members /\ late \subseteq Members
    BY DEF PermissionsInv, RoleTypeOK
  <1>2. CASE \E a \in Members : EntryExpires(a)
    <2>1. PICK a \in Members : EntryExpires(a)
      BY <1>2
    <2> QED BY <1>1, <2>1, CacheDrops DEF EntryExpires
  <1>3. CASE ClearPermissionCache
    <2>1. uncleared' = uncleared \ uncleared
      BY <1>3 DEF ClearPermissionCache
    <2> QED BY <1>1, <1>3, <2>1, CacheDrops DEF ClearPermissionCache
  <1>4. CASE Restart
    <2>1. uncleared' = uncleared \ Members /\ late' = late \ Members
      BY <1>1, <1>4 DEF Restart
    <2>2. edit' \in [Edits -> EditState] /\ \A r \in Edits : edit'[r] = NoEdit
      BY <1>4, NoEditType DEF Restart
    <2> QED BY <1>4, <2>1, <2>2, CacheDrops DEF Restart
  <1> QED BY <1>2, <1>3, <1>4

-----------------------------------------------------------------------------
(* The changes of roles and members.                                       *)

(* Whose permissions change is to be cleared, has no entry, or is late.    *)
LEMMA ChangeReaches ==
  ASSUME PermissionsInv, RoleTypeOK', ForceIsHeld', cache' = cache,
         held \subseteq held', late \subseteq late', uncleared \subseteq uncleared',
         \A a \in Members : InForce(a)' = InForce(a) \/ a \in uncleared' \cup late' \/ ~cache[a].filled,
         \A r \in Edits : edit'[r] \in {edit[r], NoEdit}
  PROVE  PermissionsInv'
  <1>1. CacheFollowsDatabase'
    <2> SUFFICES ASSUME NEW a \in Members, cache[a].filled, cache[a].perms # InForce(a)'
                 PROVE  a \in uncleared' \cup late'
      BY DEF CacheFollowsDatabase, Stale
    <2> QED BY DEF PermissionsInv, CacheFollowsDatabase, Stale
  <1>2. CacheWasHeld' /\ ReadWasHeld'
    BY NoEditType DEF PermissionsInv, CacheWasHeld, ReadWasHeld, WasHeld
  <1> QED BY <1>1, <1>2 DEF PermissionsInv

LEMMA RemembersForce ==
  ASSUME RoleTypeOK', Remember
  PROVE  ForceIsHeld' /\ held \subseteq held' /\ (held \subseteq Members \X Perms => held' \subseteq Members \X Perms)
  <1>1. \A a \in Members : InForce(a)' \subseteq Perms
    BY DEF RoleTypeOK, InForce, Role, Member
  <1>2. ASSUME NEW a \in Members, NEW k \in InForce(a)' PROVE <<a, k>> \in held'
    <2>1. <<a, k>> \in Members \X Perms
      BY <1>1
    <2> QED BY <2>1 DEF Remember
  <1> QED BY <1>2 DEF ForceIsHeld, WasHeld, Remember

(* updateRole: what it adds, the editor holds, or is a superAdmin.         *)
LEMMA UpdateRoleStep ==
  ASSUME PermissionsInv, NEW r \in Edits, NEW keys \in SUBSET Perms, UpdateRole(r, keys)
  PROVE  /\ PermissionsInv'
         /\ edit[r].who \notin SuperAdmins =>
              \A p \in Roles : WasHeld(edit[r].who, role'[p].perms \ role[p].perms)
  <1> DEFINE p == edit[r].role
             perms == keys \cup IF role[p].version = edit[r].version THEN {} ELSE role[p].perms
             new == [role[p] EXCEPT !.version = role[p].version + 1, !.perms = perms]
  <1>1. /\ role[p].exists /\ role[p].version < MaxVersion /\ edit[r].step = "commit"
        /\ edit[r].who \notin SuperAdmins => keys \subseteq edit[r].perms
        /\ uncleared' = uncleared \cup Members /\ edit' = [edit EXCEPT ![r] = NoEdit]
        /\ UNCHANGED <<member, cache, late>> /\ Remember
    BY DEF UpdateRole, EditAt, Grantable, Affected
  <1>2. role[p] \in Role /\ p \in Roles /\ role \in [Roles -> Role]
    BY DEF PermissionsInv, RoleTypeOK, EditState
  <1>3. role' = [role EXCEPT ![p] = new]
    BY <1>2 DEF UpdateRole, Role
  <1>4. role[p].version + 1 \in 1 .. MaxVersion /\ perms \in SUBSET Perms
    BY <1>1, <1>2, PermissionsAssumption DEF Role
  <1>5. new \in Role /\ new.exists = role[p].exists /\ new.perms = perms
    BY <1>2, <1>4 DEF Role
  <1>6. perms \subseteq keys \cup role[p].perms
    OBVIOUS
  <1> HIDE DEF new, p, perms
  <1>7. /\ role' \in [Roles -> Role] /\ role'[p] = new
        /\ \A q \in Roles \ {p} : role'[q] = role[q]
    BY <1>2, <1>3, <1>5
  <1>8. /\ edit' \in [Edits -> EditState] /\ \A q \in Edits : edit'[q] \in {edit[q], NoEdit}
    BY <1>1, NoEditType, EditMoves DEF PermissionsInv, RoleTypeOK
  <1>9. \A a \in Members : role'[member'[a].role].exists
    BY <1>1, <1>5, <1>7 DEF PermissionsInv, RoleTypeOK, Member
  <1>10. \A a \in Members : InForce(a)' \subseteq Perms
    BY <1>1, <1>7 DEF PermissionsInv, RoleTypeOK, InForce, Role, Member
  <1>11. held' \subseteq Members \X Perms
    BY <1>1 DEF Remember, PermissionsInv, RoleTypeOK
  <1>12. RoleTypeOK'
    BY <1>1, <1>7, <1>8, <1>9, <1>11 DEF PermissionsInv, RoleTypeOK
  <1>13. ForceIsHeld' /\ held \subseteq held'
    BY <1>1, <1>12, RemembersForce
  <1>14. PermissionsInv'
    BY <1>1, <1>8, <1>12, <1>13, ChangeReaches
  <1>15. edit[r].who \notin SuperAdmins => WasHeld(edit[r].who, keys)
    BY <1>1 DEF PermissionsInv, ReadWasHeld, WasHeld
  <1>16. \A q \in Roles : role'[q].perms \ role[q].perms \subseteq keys
    BY <1>5, <1>6, <1>7
  <1> QED BY <1>14, <1>15, <1>16 DEF WasHeld

(* createRole: nobody has the role yet.                                    *)
LEMMA CreateRoleStep ==
  ASSUME PermissionsInv, NEW r \in Edits, NEW keys, CreateRole(r, keys)
  PROVE  /\ PermissionsInv'
         /\ edit[r].who \notin SuperAdmins =>
              \A p \in Roles : WasHeld(edit[r].who, role'[p].perms \ role[p].perms)
  <1> DEFINE p == edit[r].role
             new == [exists |-> TRUE, perms |-> keys, version |-> 1]
  <1>1. /\ ~role[p].exists /\ edit[r].step = "replace" /\ role' = [role EXCEPT ![p] = new]
        /\ edit[r].who \notin SuperAdmins => keys \subseteq edit[r].perms
        /\ uncleared' = uncleared \cup Members /\ edit' = [edit EXCEPT ![r] = NoEdit]
        /\ UNCHANGED <<member, cache, late, held>>
    BY DEF CreateRole, EditAt, Grantable, Affected
  <1>2. p \in Roles /\ role \in [Roles -> Role] /\ keys \subseteq Perms
    BY DEF PermissionsInv, RoleTypeOK, EditState, CreateRole, Grantable
  <1>3. new \in Role /\ new.exists /\ new.perms = keys
    BY <1>1, <1>2, PermissionsAssumption DEF Role
  <1> HIDE DEF new, p
  <1>4. /\ role' \in [Roles -> Role] /\ role'[p] = new
        /\ \A q \in Roles \ {p} : role'[q] = role[q]
    BY <1>1, <1>2, <1>3
  <1>5. /\ edit' \in [Edits -> EditState] /\ \A q \in Edits : edit'[q] \in {edit[q], NoEdit}
    BY <1>1, NoEditType, EditMoves DEF PermissionsInv, RoleTypeOK
  <1>6. \A a \in Members : member[a].role # p /\ member[a].role \in Roles
    BY <1>1 DEF PermissionsInv, RoleTypeOK, Member
  <1>7. RoleTypeOK'
    BY <1>1, <1>4, <1>5, <1>6 DEF PermissionsInv, RoleTypeOK
  <1>8. \A a \in Members : InForce(a)' = InForce(a)
    BY <1>1, <1>4, <1>6 DEF InForce
  <1>9. ForceIsHeld'
    BY <1>1, <1>8 DEF PermissionsInv, ForceIsHeld, WasHeld
  <1>10. PermissionsInv'
    BY <1>1, <1>5, <1>7, <1>8, <1>9, ChangeReaches
  <1>11. edit[r].who \notin SuperAdmins => WasHeld(edit[r].who, keys)
    BY <1>1 DEF PermissionsInv, ReadWasHeld, WasHeld
  <1>12. \A q \in Roles : role'[q].perms \ role[q].perms \subseteq keys
    BY <1>3, <1>4
  <1> QED BY <1>10, <1>11, <1>12 DEF WasHeld

(* deleteRole: nobody has the role any more.                               *)
LEMMA DeleteRoleStep ==
  ASSUME PermissionsInv, NEW p \in Roles, DeleteRole(p)
  PROVE  PermissionsInv'
  <1> DEFINE new == [role[p] EXCEPT !.exists = FALSE, !.perms = {}]
  <1>1. /\ Unused(p) /\ uncleared' = Members /\ UNCHANGED <<member, cache, edit, late, held>>
    BY DEF DeleteRole
  <1>2. role[p] \in Role /\ role \in [Roles -> Role]
    BY DEF PermissionsInv, RoleTypeOK
  <1>3. role' = [role EXCEPT ![p] = new] /\ new \in Role
    BY <1>2 DEF DeleteRole, Role
  <1> HIDE DEF new
  <1>4. role' \in [Roles -> Role] /\ \A q \in Roles \ {p} : role'[q] = role[q]
    BY <1>2, <1>3
  <1>5. \A a \in Members : member[a].role \in Roles \ {p}
    BY <1>1 DEF Unused, PermissionsInv, RoleTypeOK, Member
  <1>6. RoleTypeOK'
    BY <1>1, <1>4, <1>5 DEF PermissionsInv, RoleTypeOK
  <1>7. \A a \in Members : InForce(a)' = InForce(a)
    BY <1>1, <1>4, <1>5 DEF InForce
  <1>8. ForceIsHeld'
    BY <1>1, <1>7 DEF PermissionsInv, ForceIsHeld, WasHeld
  <1>9. uncleared \subseteq uncleared'
    BY <1>1 DEF PermissionsInv, RoleTypeOK
  <1> QED BY <1>1, <1>6, <1>7, <1>8, <1>9, ChangeReaches

(* One member's row changes, the others stay.                              *)
LEMMA MemberMoves ==
  ASSUME PermissionsInv, NEW a \in Members, NEW new \in Member, role[new.role].exists,
         member' = [member EXCEPT ![a] = new], UNCHANGED role
  PROVE  /\ member' \in [Members -> Member] /\ member'[a] = new
         /\ \A b \in Members : role'[member'[b].role].exists
         /\ \A b \in Members \ {a} : InForce(b)' = InForce(b)
  BY DEF PermissionsInv, RoleTypeOK, InForce

LEMMA UpdateMemberStep ==
  ASSUME PermissionsInv, NEW a \in Members, NEW s \in {"active", "removed"}, NEW p \in Roles,
         UpdateMember(a, s, p)
  PROVE  PermissionsInv'
  <1> DEFINE new == [status |-> s, role |-> p]
  <1>1. /\ role[p].exists /\ member' = [member EXCEPT ![a] = new] /\ uncleared' = uncleared \cup {a}
        /\ UNCHANGED <<role, cache, edit, late>> /\ Remember
    BY DEF UpdateMember
  <1>2. new \in Member /\ new.role = p
    BY DEF Member
  <1> HIDE DEF new
  <1>3. /\ member' \in [Members -> Member]
        /\ \A b \in Members : role'[member'[b].role].exists
        /\ \A b \in Members \ {a} : InForce(b)' = InForce(b)
    BY <1>1, <1>2, MemberMoves
  <1>4. held' \subseteq Members \X Perms
    BY <1>1 DEF Remember, PermissionsInv, RoleTypeOK
  <1>5. RoleTypeOK'
    BY <1>1, <1>3, <1>4 DEF PermissionsInv, RoleTypeOK
  <1>6. ForceIsHeld' /\ held \subseteq held'
    BY <1>1, <1>5, RemembersForce
  <1> QED BY <1>1, <1>3, <1>5, <1>6, ChangeReaches

LEMMA MemberInvitedStep ==
  ASSUME PermissionsInv, NEW a \in Members, NEW p \in Roles, MemberInvited(a, p)
  PROVE  PermissionsInv'
  <1> DEFINE new == [status |-> "invited", role |-> p]
  <1>1. /\ role[p].exists /\ member' = [member EXCEPT ![a] = new] /\ member[a].status = "removed"
        /\ UNCHANGED <<role, cache, uncleared, edit, late, held>>
    BY DEF MemberInvited
  <1>2. new \in Member /\ new.role = p /\ new.status = "invited"
    BY DEF Member
  <1> HIDE DEF new
  <1>3. /\ member' \in [Members -> Member] /\ member'[a] = new
        /\ \A b \in Members : role'[member'[b].role].exists
        /\ \A b \in Members \ {a} : InForce(b)' = InForce(b)
    BY <1>1, <1>2, MemberMoves
  <1>4. InForce(a)' = InForce(a)
    BY <1>1, <1>2, <1>3 DEF InForce
  <1>5. RoleTypeOK'
    BY <1>1, <1>3 DEF PermissionsInv, RoleTypeOK
  <1>6. ForceIsHeld'
    BY <1>1, <1>3, <1>4 DEF PermissionsInv, ForceIsHeld, WasHeld
  <1> QED BY <1>1, <1>3, <1>4, <1>5, <1>6, ChangeReaches

(* An entry from before the acceptance is late.                            *)
LEMMA InviteAcceptedStep ==
  ASSUME PermissionsInv, NEW a \in Members, InviteAccepted(a)
  PROVE  PermissionsInv'
  <1> DEFINE new == [member[a] EXCEPT !.status = "active"]
  <1>1. /\ member' = [member EXCEPT ![a] = new] /\ late' = late \cup {b \in {a} : cache[b].filled}
        /\ UNCHANGED <<role, cache, uncleared, edit>> /\ Remember
    BY DEF InviteAccepted, PermissionsInv, RoleTypeOK
  <1>2. new \in Member /\ new.role = member[a].role /\ role[new.role].exists
    BY DEF PermissionsInv, RoleTypeOK, Member
  <1> HIDE DEF new
  <1>3. /\ member' \in [Members -> Member]
        /\ \A b \in Members : role'[member'[b].role].exists
        /\ \A b \in Members \ {a} : InForce(b)' = InForce(b)
    BY <1>1, <1>2, MemberMoves
  <1>4. held' \subseteq Members \X Perms /\ late' \subseteq Members
    BY <1>1 DEF Remember, PermissionsInv, RoleTypeOK
  <1>5. RoleTypeOK'
    BY <1>1, <1>3, <1>4 DEF PermissionsInv, RoleTypeOK
  <1>6. ForceIsHeld' /\ held \subseteq held'
    BY <1>1, <1>5, RemembersForce
  <1>7. late \subseteq late' /\ (cache[a].filled => a \in late')
    BY <1>1
  <1> QED BY <1>1, <1>3, <1>5, <1>6, <1>7, ChangeReaches

-----------------------------------------------------------------------------
(* What one edit writes into a role when it ends.                          *)
Grants ==
  \A r \in Edits, p \in Roles :
    edit[r] # NoEdit /\ edit'[r] = NoEdit /\ edit[r].who \notin SuperAdmins =>
      {edit[r].who} \X (role'[p].perms \ role[p].perms) \subseteq held

(* An edit that writes a role ends, and no other with it.                  *)
LEMMA OneEditGrants ==
  ASSUME PermissionsInv, NEW r \in Edits, edit' = [edit EXCEPT ![r] = NoEdit],
         edit[r].who \notin SuperAdmins =>
           \A p \in Roles : WasHeld(edit[r].who, role'[p].perms \ role[p].perms)
  PROVE  Grants
  <1>1. \A q \in Edits \ {r} : edit'[q] = edit[q]
    BY DEF PermissionsInv, RoleTypeOK
  <1> QED BY <1>1 DEF Grants, WasHeld

LEMMA NothingGranted ==
  ASSUME role' = role \/ UNCHANGED edit
  PROVE  Grants
  BY DEF Grants

LEMMA PermissionsStep == PermissionsInv /\ [RoleNext]_roleVars => PermissionsInv' /\ Grants
  <1> SUFFICES ASSUME PermissionsInv, [RoleNext]_roleVars PROVE PermissionsInv' /\ Grants
    OBVIOUS
  <1>1. ASSUME NEW r \in Edits, Edit(r) PROVE PermissionsInv' /\ Grants
    <2>1. CASE \E a \in Members, p \in Roles : EditBegins(r, a, p)
      BY <2>1, EditBeginsStep, NothingGranted DEF EditBegins
    <2>2. CASE LookInCache(r) \/ LookInDatabase(r) \/ FillCache(r)
      BY <2>2, LookInCacheStep, LookInDatabaseStep, FillCacheStep, NothingGranted
         DEF LookInCache, LookInDatabase, FillCache
    <2>3. CASE ReplacePermissions(r) \/ EditFails(r)
      BY <2>3, ReplaceStep, EditFailsStep, NothingGranted DEF ReplacePermissions, EditFails
    <2>4. ASSUME NEW keys \in SUBSET Perms, UpdateRole(r, keys) PROVE PermissionsInv' /\ Grants
      <3>1. edit' = [edit EXCEPT ![r] = NoEdit]
        BY <2>4 DEF UpdateRole
      <3> QED BY <2>4, <3>1, UpdateRoleStep, OneEditGrants
    <2>5. ASSUME NEW keys, CreateRole(r, keys) PROVE PermissionsInv' /\ Grants
      <3>1. edit' = [edit EXCEPT ![r] = NoEdit]
        BY <2>5 DEF CreateRole
      <3> QED BY <2>5, <3>1, CreateRoleStep, OneEditGrants
    <2> QED BY <1>1, <2>1, <2>2, <2>3, <2>4, <2>5 DEF Edit, LoadAdminPermissions, CloneRole
  <1>2. CASE \E p \in Roles : DeleteRole(p)
    BY <1>2, DeleteRoleStep, NothingGranted DEF DeleteRole
  <1>3. ASSUME NEW a \in Members, InviteAccepted(a) PROVE PermissionsInv' /\ Grants
    BY <1>3, InviteAcceptedStep, NothingGranted DEF InviteAccepted
  <1>4. ASSUME NEW a \in Members, NEW p \in Roles, MemberInvited(a, p) PROVE PermissionsInv' /\ Grants
    BY <1>4, MemberInvitedStep, NothingGranted DEF MemberInvited
  <1>5. ASSUME NEW a \in Members, NEW p \in Roles, NEW s \in {"active", "removed"}, UpdateMember(a, s, p)
        PROVE  PermissionsInv' /\ Grants
    BY <1>5, UpdateMemberStep, NothingGranted DEF UpdateMember
  <1>6. CASE (\E a \in Members : EntryExpires(a)) \/ ClearPermissionCache \/ Restart
    BY <1>6, DropSteps, NothingGranted DEF EntryExpires, ClearPermissionCache, Restart
  <1>7. CASE UNCHANGED roleVars
    <2>1. PermissionsInv'
      BY <1>7 DEF roleVars, PermissionsInv, RoleTypeOK, CacheFollowsDatabase, Stale, ForceIsHeld, CacheWasHeld,
                  ReadWasHeld, WasHeld, InForce
    <2> QED BY <1>7, <2>1, NothingGranted DEF roleVars
  <1> QED BY <1>1, <1>2, <1>3, <1>4, <1>5, <1>6, <1>7 DEF RoleNext

LEMMA PermissionsInvariant == RoleSpec => []PermissionsInv
  <1>1. PermissionsInv /\ [RoleNext]_roleVars => PermissionsInv'
    BY PermissionsStep
  <1> QED BY PermissionsInit, <1>1, PTL DEF RoleSpec

-----------------------------------------------------------------------------
(* Roles, members, entries and edits keep their types, and no member       *)
(* is left with a role that is gone.                                       *)
THEOREM PermissionsTypeCorrect == RoleSpec => []RoleTypeOK
  <1>1. PermissionsInv => RoleTypeOK
    BY DEF PermissionsInv
  <1> QED BY <1>1, PermissionsInvariant, PTL

(* An entry that differs from the database is about to be cleared, or was  *)
(* overtaken while it was read, or is from before an acceptance.           *)
THEOREM StaleEntryIsExplained == RoleSpec => []CacheFollowsDatabase
  <1>1. PermissionsInv => CacheFollowsDatabase
    BY DEF PermissionsInv
  <1> QED BY <1>1, PermissionsInvariant, PTL

(* Nobody but a superAdmin writes a permission into a role that was never  *)
(* in force for them, however old the entry they are judged by.            *)
THEOREM OnlyHeldIsGranted == RoleSpec => GrantedWasHeld
  <1>1. PermissionsInv /\ [RoleNext]_roleVars => [Grants]_roleVars
    BY PermissionsStep
  <1>2. RoleSpec => [][Grants]_roleVars
    BY <1>1, PermissionsInvariant, PTL DEF RoleSpec
  <1> QED BY <1>2 DEF GrantedWasHeld, Grants

==============================================================================
