\* Every offer may be used up, so the system may stop.
SPECIFICATION OfferSpec
CONSTANTS
  Customers = {c1, c2}
  OfferIds = {o1, o2}
  Codes = {a, b}
  OrderIds = {k1, k2}
  NoCustomer = NoCustomer
  NoOffer = NoOffer
  NoOfferCode = NoOfferCode
  MaxCallers = 1
SYMMETRY MCSymmetry
INVARIANTS DiscountIsRecorded RecordedWasGiven OnceAfterPayment
CHECK_DEADLOCK FALSE
