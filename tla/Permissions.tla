----------------------------- MODULE Permissions -----------------------------
(***************************************************************************)
(* The roles of one organization (roles.Controller.js) and the permission  *)
(* cache of the server in front of them (requirePermission.js).            *)
(*                                                                         *)
(* A look-up that misses the cache reads the database, and fills the cache *)
(* when the answer arrives; a change commits, and clears the cache when    *)
(* its answer arrives.  In between the server does other things.           *)
(***************************************************************************)
EXTENDS Naturals, FiniteSets

CONSTANTS Members,      \* admins with a row in organization_members
          Boss,         \* the owner of the organization
          SuperAdmins,  \* those whose account has the platform's role 'superAdmin'
          Roles,        \* rows of roles there may be
          OwnerRole,    \* the role 'owner'
          SystemRoles,  \* roles with is_system
          Perms,        \* keys of permissions
          Common,       \* those every system role has
          Edits,        \* role edits that run at the same time
          MaxVersion    \* bound: permissions_version

ASSUME PermissionsAssumption ==
  /\ Boss \in Members /\ SuperAdmins \subseteq Members /\ Common \subseteq Perms
  /\ OwnerRole \in SystemRoles /\ SystemRoles \subseteq Roles
  /\ MaxVersion \in Nat \ {0}

VARIABLES role,       \* role -> its row and its role_permissions
          member,     \* admin -> status and role
          cache,      \* admin -> permissionCache entry
          uncleared,  \* entries whose change is committed, and that are still to be dropped
          edit,       \* edit -> where it is and what it read
          late,       \* history: entries filled with what had changed since it was read, or before an acceptance
          held        \* history: <<admin, permission>> that were ever in force

roleVars == <<role, member, cache, uncleared, edit, late, held>>

Role == [exists : BOOLEAN, perms : SUBSET Perms, version : 1 .. MaxVersion]
Member == [status : {"invited", "active", "removed"}, role : Roles]
Entry == [filled : BOOLEAN, perms : SUBSET Perms]
EditSteps == {"idle", "look", "fill", "replace", "commit"}
EditState == [step : EditSteps, who : Members, perms : SUBSET Perms, role : Roles, version : 0 .. MaxVersion]

Empty == [filled |-> FALSE, perms |-> {}]
NoEdit == [step |-> "idle", who |-> Boss, perms |-> {}, role |-> OwnerRole, version |-> 0]
EditAt(r, step) == edit[r].step = step

-----------------------------------------------------------------------------
(* The query of loadAdminPermissions. *)
InForce(a) == IF member[a].status = "active" THEN role[member[a].role].perms ELSE {}

(* What every change adds to the history. *)
Remember == held' = held \cup {x \in Members \X Perms : x[2] \in InForce(x[1])'}

Dropped(who) == [a \in Members |-> IF a \in who THEN Empty ELSE cache[a]]

RoleInit ==
  /\ role = [p \in Roles |-> [exists |-> p \in SystemRoles, version |-> 1,
                              perms |-> IF p = OwnerRole THEN Perms
                                        ELSE IF p \in SystemRoles THEN Common ELSE {}]]
  /\ \E p \in SystemRoles : member = [a \in Members |-> IF a = Boss THEN [status |-> "active", role |-> OwnerRole]
                                                        ELSE [status |-> "invited", role |-> p]]
  /\ cache = [a \in Members |-> Empty]
  /\ uncleared = {} /\ late = {}
  /\ edit = [r \in Edits |-> NoEdit]
  /\ held = {Boss} \X Perms

-----------------------------------------------------------------------------
(* loadAdminPermissions, from the cache or from the database.  That is the *)
(* look-up of resolvePermissionIds; requirePermission made one before, and *)
(* the model lets everybody through there.                                 *)

LookInCache(r) ==
  LET entry == cache[edit[r].who] IN
  /\ EditAt(r, "look")
  /\ entry.filled
  /\ edit' = [edit EXCEPT ![r].step = "replace", ![r].perms = entry.perms]
  /\ UNCHANGED <<role, member, cache, uncleared, late, held>>

LookInDatabase(r) ==
  LET a == edit[r].who IN
  /\ EditAt(r, "look")
  /\ ~cache[a].filled
  /\ edit' = [edit EXCEPT ![r].step = "fill", ![r].perms = InForce(a)]
  /\ UNCHANGED <<role, member, cache, uncleared, late, held>>

FillCache(r) ==
  LET a == edit[r].who
      perms == edit[r].perms
  IN /\ EditAt(r, "fill")
     /\ cache' = [cache EXCEPT ![a] = [filled |-> TRUE, perms |-> perms]]
     /\ late' = IF perms = InForce(a) THEN late \ {a} ELSE late \cup {a}
     /\ edit' = [edit EXCEPT ![r].step = "replace"]
     /\ UNCHANGED <<role, member, uncleared, held>>

LoadAdminPermissions(r) == LookInCache(r) \/ LookInDatabase(r) \/ FillCache(r)

(* CACHE_TTL is over.  The size of the cache never matters here. *)
EntryExpires(a) ==
  /\ cache[a].filled
  /\ cache' = Dropped({a})
  /\ late' = late \ {a}
  /\ UNCHANGED <<role, member, uncleared, edit, held>>

(* clearPermissionCache, clearOrgPermissionCache *)
ClearPermissionCache ==
  /\ uncleared # {}
  /\ cache' = Dropped(uncleared)
  /\ late' = late \ uncleared
  /\ uncleared' = {}
  /\ UNCHANGED <<role, member, edit, held>>

Restart ==
  /\ cache' = Dropped(Members)
  /\ uncleared' = {} /\ late' = {}
  /\ edit' = [r \in Edits |-> NoEdit]
  /\ UNCHANGED <<role, member, held>>

-----------------------------------------------------------------------------
(* createRole, cloneRole and updateRole begin alike.  The permissions of   *)
(* the owner's role are not edited.  Nothing is looked up for a superAdmin. *)
EditBegins(r, a, p) ==
  /\ edit[r] = NoEdit
  /\ p # OwnerRole
  /\ \E step \in {"look", "replace"} :
       /\ step = "replace" <=> a \in SuperAdmins
       /\ edit' = [edit EXCEPT ![r] = [NoEdit EXCEPT !.step = step, !.who = a, !.role = p]]
  /\ UNCHANGED <<role, member, cache, uncleared, late, held>>

(* A slip: what is cloned needs no permission of one's own. *)
GrantableFromRole(r) == {edit[r].perms} \cup {role[p].perms : p \in {q \in Roles : role[q].exists}}

(* The sets resolvePermissionIds lets through: what the caller holds, and  *)
(* anything when the caller is a superAdmin.                               *)
Grantable(r) == SUBSET IF edit[r].who \in SuperAdmins THEN Perms ELSE edit[r].perms

(* updateRole: DELETE of the role's permissions; the rows another edit     *)
(* inserts meanwhile are not among them.                                   *)
ReplacePermissions(r) ==
  /\ EditAt(r, "replace")
  /\ role[edit[r].role].exists
  /\ edit' = [edit EXCEPT ![r].step = "commit", ![r].version = role[edit[r].role].version]
  /\ UNCHANGED <<role, member, cache, uncleared, late, held>>

(* A slip: the editor's own entry only. *)
AffectedEditor(r) == {edit[r].who}

(* clearOrgPermissionCache drops every entry of the organization. *)
Affected(r) == Members

UpdateRole(r, keys) ==
  LET p == edit[r].role IN
     /\ EditAt(r, "commit")
     /\ role[p].exists /\ role[p].version < MaxVersion
     /\ keys \in Grantable(r)
     /\ role' = [role EXCEPT ![p].version = @ + 1,
                             ![p].perms = keys \cup IF role[p].version = edit[r].version THEN {} ELSE @]
     /\ uncleared' = uncleared \cup Affected(r)
     /\ edit' = [edit EXCEPT ![r] = NoEdit]
     /\ UNCHANGED <<member, cache, late>>
     /\ Remember

(* createRole with a list of keys, or cloned from a role like cloneRole. *)
CreateRole(r, keys) ==
  LET p == edit[r].role IN
     /\ EditAt(r, "replace")
     /\ ~role[p].exists
     /\ keys \in Grantable(r)
     /\ role' = [role EXCEPT ![p] = [exists |-> TRUE, perms |-> keys, version |-> 1]]
     /\ uncleared' = uncleared \cup Affected(r)
     /\ edit' = [edit EXCEPT ![r] = NoEdit]
     /\ UNCHANGED <<member, cache, late, held>>

CloneRole(r, source) == role[source].exists /\ CreateRole(r, role[source].perms)

EditFails(r) ==
  /\ edit[r] # NoEdit
  /\ edit' = [edit EXCEPT ![r] = NoEdit]
  /\ UNCHANGED <<role, member, cache, uncleared, late, held>>

(* The foreign key of organization_members, ON DELETE RESTRICT: the count  *)
(* of active members that deleteRole takes first lets more through.        *)
Unused(p) == \A a \in Members : member[a].role # p

DeleteRole(p) ==
  /\ role[p].exists /\ p \notin SystemRoles
  /\ Unused(p)
  /\ role' = [role EXCEPT ![p].exists = FALSE, ![p].perms = {}]
  /\ uncleared' = Members
  /\ UNCHANGED <<member, cache, edit, late, held>>

-----------------------------------------------------------------------------
(* updateMember, removeMember, inviteMember and acceptInvite, as far as    *)
(* permissions go (Team.tla has the rest).  The owner is left alone.       *)

UpdateMember(a, status, p) ==
  /\ a # Boss
  /\ role[p].exists
  /\ member' = [member EXCEPT ![a] = [status |-> status, role |-> p]]
  /\ uncleared' = uncleared \cup {a}
  /\ UNCHANGED <<role, cache, edit, late>>
  /\ Remember

(* Nothing is cleared: the entry of a removed member is gone already, or   *)
(* it is as empty as it should be.                                         *)
MemberInvited(a, p) ==
  /\ a # Boss
  /\ member[a].status = "removed" /\ role[p].exists
  /\ member' = [member EXCEPT ![a] = [status |-> "invited", role |-> p]]
  /\ UNCHANGED <<role, cache, uncleared, edit, late, held>>

(* Nothing is cleared here either. *)
InviteAccepted(a) ==
  /\ member[a].status = "invited"
  /\ member' = [member EXCEPT ![a].status = "active"]
  /\ late' = late \cup {b \in {a} : cache[b].filled}
  /\ UNCHANGED <<role, cache, uncleared, edit>>
  /\ Remember

-----------------------------------------------------------------------------
Edit(r) ==
  \/ \E a \in Members, p \in Roles : EditBegins(r, a, p)
  \/ LoadAdminPermissions(r) \/ ReplacePermissions(r) \/ EditFails(r)
  \/ \E keys \in SUBSET Perms : UpdateRole(r, keys) \/ CreateRole(r, keys)
  \/ \E p \in Roles : CloneRole(r, p)

RoleNext ==
  \/ \E r \in Edits : Edit(r)
  \/ \E p \in Roles : DeleteRole(p)
  \/ \E a \in Members :
       \/ EntryExpires(a) \/ InviteAccepted(a)
       \/ \E p \in Roles : MemberInvited(a, p) \/ \E s \in {"active", "removed"} : UpdateMember(a, s, p)
  \/ ClearPermissionCache \/ Restart

RoleSpec == RoleInit /\ [][RoleNext]_roleVars

-----------------------------------------------------------------------------
(* Rows are rows; nobody has a role that is gone, the invited and the      *)
(* removed included (deleteRole, organization_members_role_same_org_fkey). *)
RoleTypeOK ==
  /\ role \in [Roles -> Role]
  /\ member \in [Members -> Member]
  /\ cache \in [Members -> Entry]
  /\ uncleared \subseteq Members /\ late \subseteq Members
  /\ edit \in [Edits -> EditState]
  /\ held \subseteq Members \X Perms
  /\ \A a \in Members : role[member[a].role].exists

Stale(a) == cache[a].filled /\ cache[a].perms # InForce(a)

(* Every change of a role or of a member reaches the cache: an entry that  *)
(* differs from the database is about to be cleared, was filled by a       *)
(* look-up the change overtook, or is one from before the invitation was   *)
(* accepted (loadAdminPermissions, clearOrgPermissionCache, acceptInvite). *)
CacheFollowsDatabase == \A a \in Members : Stale(a) => a \in uncleared \cup late

(* "the caller may not grant a permission they do not themselves hold"     *)
(* (resolvePermissionIds): whoever writes a permission into a role holds   *)
(* or has held it, unless they are a superAdmin (roles.Controller.js:34);  *)
(* neither clones, nor stale entries, nor edits that run at the same time, *)
(* a superAdmin's included, get around that.                               *)
GrantedWasHeld ==
  [][\A r \in Edits, p \in Roles :
       edit[r] # NoEdit /\ edit'[r] = NoEdit /\ edit[r].who \notin SuperAdmins =>
         {edit[r].who} \X (role'[p].perms \ role[p].perms) \subseteq held]_roleVars
=============================================================================
