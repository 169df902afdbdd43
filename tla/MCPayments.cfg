\* Two customers compete for one seat with two orders.
SPECIFICATION PaySpec
CONSTANTS
  Customers = {c1, c2}
  Seats = {s1}
  OrderIds = {o1, o2}
  PayIds = {p1, p2}
  NoCustomer = NoCustomer
  NoPayment = NoPayment
  NoOrder = NoOrder
  Subscribed = {"payment.captured", "payment.failed"}
  VerifyCalls = {v1, v2}
SYMMETRY MCSymmetry
INVARIANTS OneBookingPerOrder PaidOrderHasBooking BookedSeatIsListed CaptureIsTracked
PROPERTY BookedIsFinal
