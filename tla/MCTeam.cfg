\* Three memberships: an admin with two of their own and one of another's
\* organization, or two rows of one admin beside the owner's.
SPECIFICATION Spec
CONSTANTS
  Admins = {a1, a2, s1}
  Staff = {s1}
  NoAdmin = NoAdmin
  Names = {n1, n2}
  Requests = {r1, r2}
  MaxRows = 3
SYMMETRY MCSymmetry
INVARIANTS OwnerIsMember RemovedStaysOut ActsAtHome
