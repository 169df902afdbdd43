\* Three password versions: two changes, or a change and a reset, can race.
SPECIFICATION Spec
CONSTANTS
  Requests = {r1, r2}
  SessionIds = {s1, s2}
  NoSession = NoSession
  LockTiers = {2}
  MaxFails = 2
  MaxPassword = 3
  MaxReset = 2
SYMMETRY MCSymmetry
INVARIANTS  LockedAtThreshold SpentStaysSpent
