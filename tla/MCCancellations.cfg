\* No symmetry under liveness; a show may end with nothing left to do, so
\* the system may stop.
SPECIFICATION FairSpec
CONSTANTS
  Admins = {a1, a2}
  Paid = {b1}
  Unpaid = {u1}
  NoAdmin = NoAdmin
  NoBooking = NoBooking
INVARIANTS RefundedOnce RefundRowsAreCancelled SettledIsPaidBack CancelledHasRefundRow
PROPERTY InitiatedEnds
CHECK_DEADLOCK FALSE
