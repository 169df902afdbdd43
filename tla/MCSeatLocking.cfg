SPECIFICATION Spec
CONSTANTS
  Customers = {c1, c2}
  Seats = {s1, s2}
  Conns = {k1, k2}
  NoCustomer = NoCustomer
  NoPayment = NoPayment
  NoConn = NoConn
  SeatLists <- Lists
  HoldTicks = 1
  MaxClock = 2
SYMMETRY MCSymmetry
INVARIANTS TypeOK SeatSoldOnce BookedMatchesBookings SecuredStaysTrue SameOrderNoDeadlock
PROPERTIES ImplementsLedger AllOrNothing
