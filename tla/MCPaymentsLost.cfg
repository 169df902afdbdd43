\* A capture event recorded before its handler fails.
SPECIFICATION FairPaySpec
CONSTANTS
  Customers = {c1}
  Seats = {s1}
  OrderIds = {o1}
  PayIds = {p1}
  NoCustomer = NoCustomer
  NoPayment = NoPayment
  NoOrder = NoOrder
  Subscribed = {"payment.captured"}
  VerifyCalls = {v1}
PROPERTY CapturedIsBooked
