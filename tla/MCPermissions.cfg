SPECIFICATION RoleSpec
CONSTANTS
  Members = {boss, m1, root}
  Boss = boss
  SuperAdmins = {root}
  Roles = {owner, desk}
  OwnerRole = owner
  SystemRoles = {owner}
  Perms = {billing}
  Common = {}
  Edits = {r1, r2}
  MaxVersion = 2
SYMMETRY MCSymmetry
INVARIANTS CacheFollowsDatabase
PROPERTIES GrantedWasHeld
