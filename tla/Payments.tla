------------------------------ MODULE Payments ------------------------------
(***************************************************************************)
(* The payment flow of payment.Controller.js for one show, on top of the   *)
(* atomic seat operations of SeatLedger.  A customer who holds seats opens *)
(* a checkout (createOrder), pays at Razorpay, and the payment reaches the *)
(* service twice: through the browser (verifyPayment) and through webhook  *)
(* deliveries (handleWebhook), which are retried, reordered, duplicated    *)
(* and may fail after they were recorded.                                  *)
(*                                                                         *)
(* Each BEGIN ... COMMIT transaction is one step; the reads a handler      *)
(* makes before its transaction are steps of their own, so what they saw   *)
(* may be stale when the transaction runs.                                 *)
(***************************************************************************)
EXTENDS SeatLedger

CONSTANTS OrderIds,     \* ids Razorpay gives to orders
          PayIds,       \* ids Razorpay gives to payment attempts
          NoOrder,
          Subscribed,   \* kinds of event the account's webhook is subscribed to
          VerifyCalls   \* bound: the calls of verifyPayment that may run at once

EventKinds == {"payment.captured", "payment.failed", "order.paid"}

ASSUME PaymentsAssumption ==
  /\ NoPayment \notin PayIds
  /\ NoOrder \notin OrderIds
  /\ Subscribed \subseteq EventKinds

VARIABLES
  order,      \* order id -> its row of payment_orders ("none": no row)
  checkout,   \* customer -> the order the open checkout page pays
  attempt,    \* payment id -> the attempt at Razorpay
  verifying,  \* verify call -> its payment and its caller, from its reads to its transaction
  owed,       \* webhook events Razorpay has yet to see acknowledged
  recorded,   \* webhook_events: the deduplication table
  running,    \* events recorded, or let through, whose handler has not run yet
  dropped     \* history: events recorded whose handler then failed

gatewayVars == <<attempt, owed>>
serverVars == <<verifying, recorded, running, dropped>>
payVars == <<row, bookings, order, checkout, attempt, verifying, owed, recorded, running, dropped>>

-----------------------------------------------------------------------------
Event == [kind : EventKinds, pay : PayIds]

NoRecord == [status |-> "none", who |-> NoCustomer, seats |-> {}, pay |-> NoPayment, recent |-> FALSE]

OrderRow == [status : {"none", "pricing", "created", "paid", "failed"},
             who : Customers \cup {NoCustomer}, seats : SUBSET Seats,
             pay : PayIds \cup {NoPayment}, recent : BOOLEAN]

PaymentBooking == [who : Customers, seats : SUBSET Seats, pay : PayIds \cup {NoPayment}]

OrderOf(p) == attempt[p].order
HasBooking(p) == \E i \in DOMAIN bookings : bookings[i].pay = p

(* A verify call: a payment, and the signed-in customer who calls, whose   *)
(* account is never compared with the customer of the order.               *)
VerifyCall == [pay : PayIds, who : Customers]

NoCall == [pay |-> NoPayment, who |-> NoCustomer]

(* The booking of customer c for a payment of an order. *)
PaidBooking(o, p, c) == [who |-> c, seats |-> order[o].seats, pay |-> p]

(* Mistakes in the INSERT: no conflict clause (OneBookingPerOrder catches  *)
(* it), the conflict on the customer (PaidOrderHasBooking), and none for   *)
(* an order a webhook has marked failed (BookedSeatIsListed).              *)
InsertBookingAlways(o, p, c) == bookings' = Append(bookings, PaidBooking(o, p, c))
InsertBookingPerCustomer(o, p, c) ==
  bookings' = IF \E i \in DOMAIN bookings : bookings[i].who = c
              THEN bookings ELSE Append(bookings, PaidBooking(o, p, c))
InsertBookingUnlessFailed(o, p, c) ==
  bookings' = IF HasBooking(p) \/ order[o].status = "failed"
              THEN bookings ELSE Append(bookings, PaidBooking(o, p, c))

(* INSERT INTO bookings ... ON CONFLICT (payment_id) DO NOTHING *)
InsertBooking(o, p, c) ==
  bookings' = IF HasBooking(p) THEN bookings
              ELSE Append(bookings, PaidBooking(o, p, c))

MarkPaid(o, p) == order' = [order EXCEPT ![o].status = "paid", ![o].pay = p]

PayInit == /\ LedgerInit
           /\ order = [o \in OrderIds |-> NoRecord]
           /\ checkout = [c \in Customers |-> NoOrder]
           /\ attempt = [p \in PayIds |-> [order |-> NoOrder, status |-> "none"]]
           /\ verifying = [v \in VerifyCalls |-> NoCall]
           /\ owed = {} /\ recorded = {} /\ running = {} /\ dropped = {}

-----------------------------------------------------------------------------
(* The seat endpoints *)

Seating ==
  /\ LedgerNext
  /\ UNCHANGED <<order, checkout, gatewayVars, serverVars>>

-----------------------------------------------------------------------------
(* createOrder *)

ActiveOrders(c) == {o \in OrderIds : /\ order[o].who = c /\ order[o].status = "created"
                                     /\ order[o].recent}

(* The newest of the customer's active orders is answered as it is, for    *)
(* whatever seats the call asks.  (Two of them exist only when two calls   *)
(* raced, so either may be the newest.)                                    *)
CreateOrderExisting(c) ==
  \E o \in ActiveOrders(c) :
    /\ checkout' = [checkout EXCEPT ![c] = o]
    /\ UNCHANGED <<row, bookings, order, gatewayVars, serverVars>>

(* No active order, and all the seats are held by the customer, unexpired: *)
(* the call goes on to price the seats and to ask Razorpay for an order.   *)
CreateOrderCheck(c, S, o) ==
  /\ ActiveOrders(c) = {}
  /\ \A s \in S : HeldBy(row[s], c) /\ ~row[s].lapsed
  /\ order[o].status = "none"
  /\ order' = [order EXCEPT ![o] = [NoRecord EXCEPT !.status = "pricing", !.who = c, !.seats = S]]
  /\ UNCHANGED <<row, bookings, checkout, gatewayVars, serverVars>>

CreateOrderInsert(o) ==
  /\ order[o].status = "pricing"
  /\ order' = [order EXCEPT ![o].status = "created", ![o].recent = TRUE]
  /\ checkout' = [checkout EXCEPT ![order[o].who] = o]
  /\ UNCHANGED <<row, bookings, gatewayVars, serverVars>>

(* An unknown show, a refused offer, a gateway error: nothing is stored. *)
CreateOrderFails(o) ==
  /\ order[o].status = "pricing"
  /\ order' = [order EXCEPT ![o] = NoRecord]
  /\ UNCHANGED <<row, bookings, checkout, gatewayVars, serverVars>>

(* Ten minutes after created_at. *)
OrderAges(o) ==
  /\ order[o].recent
  /\ order' = [order EXCEPT ![o].recent = FALSE]
  /\ UNCHANGED <<row, bookings, checkout, gatewayVars, serverVars>>

-----------------------------------------------------------------------------
(* Razorpay *)

(* What Razorpay reports of an attempt. *)
EventsOf(p, outcome) ==
  {[kind |-> k, pay |-> p] : k \in Subscribed \cap
     IF outcome = "captured" THEN {"payment.captured", "order.paid"} ELSE {"payment.failed"}}

(* An attempt to pay the order of an open checkout.  Razorpay captures at  *)
(* most one payment of an order, and takes no attempt after that.          *)
Attempt(c, p, outcome) ==
  LET o == checkout[c] IN
  /\ o # NoOrder
  /\ attempt[p].status = "none"
  /\ \A q \in PayIds : OrderOf(q) = o => attempt[q].status # "captured"
  /\ attempt' = [attempt EXCEPT ![p] = [order |-> o, status |-> outcome]]
  /\ owed' = owed \cup EventsOf(p, outcome)
  /\ UNCHANGED <<row, bookings, order, checkout, serverVars>>

-----------------------------------------------------------------------------
(* verifyPayment.  The browser calls it, once or more, with a payment that *)
(* Razorpay signed, from whatever account is signed in there.              *)

(* Steps 1-3: a paid order that has its booking is answered at once, which *)
(* changes nothing.  Any other order goes on to the transaction.           *)
VerifyPaymentRead(v, p, c) ==
  /\ verifying[v] = NoCall
  /\ attempt[p].status = "captured"
  /\ ~(order[OrderOf(p)].status = "paid" /\ HasBooking(p))
  /\ verifying' = [verifying EXCEPT ![v] = [pay |-> p, who |-> c]]
  /\ UNCHANGED <<row, bookings, order, checkout, gatewayVars, recorded, running, dropped>>

(* The seats that the UPDATE of verifyPayment reaches: those its caller    *)
(* holds, whatever their status and their expiry.                          *)
SeatsToVerify(o, c) == {s \in order[o].seats : row[s].by = c}

VerifyPaymentCommit(v) ==
  LET p == verifying[v].pay
      c == verifying[v].who
      o == OrderOf(p)
  IN  /\ verifying[v] # NoCall
      /\ row' = With(SeatsToVerify(o, c), BookedRow(c))
      /\ InsertBooking(o, p, c)
      /\ MarkPaid(o, p)
      /\ verifying' = [verifying EXCEPT ![v] = NoCall]
      /\ UNCHANGED <<checkout, gatewayVars, recorded, running, dropped>>

(* A statement fails, or the process dies: ROLLBACK, 500. *)
VerifyPaymentFails(v) ==
  /\ verifying[v] # NoCall
  /\ verifying' = [verifying EXCEPT ![v] = NoCall]
  /\ UNCHANGED <<row, bookings, order, checkout, gatewayVars, recorded, running, dropped>>

-----------------------------------------------------------------------------
(* handleWebhook *)

(* The INSERT into webhook_events decides whether the event is new.  A     *)
(* duplicate is acknowledged without running its handler.                  *)
DeliverNew(e) ==
  /\ e \in owed \ recorded
  /\ recorded' = recorded \cup {e}
  /\ running' = running \cup {e}
  /\ UNCHANGED <<row, bookings, order, checkout, gatewayVars, verifying, dropped>>

DeliverDuplicate(e) ==
  /\ e \in owed \cap recorded
  /\ owed' = owed \ {e}
  /\ UNCHANGED <<row, bookings, order, checkout, attempt, serverVars>>

(* The INSERT itself fails: the event is processed all the same. *)
DeliverUnrecorded(e) ==
  /\ e \in owed \ recorded
  /\ running' = running \cup {e}
  /\ UNCHANGED <<row, bookings, order, checkout, gatewayVars, verifying, recorded, dropped>>

(* A mistake BookedIsFinal catches: a failed payment frees BOOKED seats. *)
SeatsToCaptureAll(o) == order[o].seats

(* The seats of handlePaymentCaptured's UPDATE: any that is HELD, by       *)
(* whomever.                                                               *)
SeatsToCapture(o) == {s \in order[o].seats : row[s].status = "HELD"}

(* A mistake CaptureIsTracked catches: a failed attempt closes the order.  *)
HandlePaymentCapturedUnlessFailed(o, p) ==
  IF order[o].status \in {"paid", "failed"}
  THEN UNCHANGED <<row, bookings, order>>
  ELSE row' = With(SeatsToCapture(o), BookedRow(order[o].who)) /\ InsertBooking(o, p, order[o].who) /\ MarkPaid(o, p)

(* The UPDATE leaves held_by alone. *)
HandlePaymentCaptured(o, p) ==
  IF order[o].status = "paid"
  THEN UNCHANGED <<row, bookings, order>>
  ELSE /\ row' = [s \in Seats |-> IF s \in SeatsToCapture(o) THEN BookedRow(row[s].by) ELSE row[s]]
       /\ InsertBooking(o, p, order[o].who)
       /\ MarkPaid(o, p)

HandlePaymentFailed(o) ==
  /\ order' = [order EXCEPT ![o].status = "failed"]
  /\ row' = With(SeatsToCapture(o), NoRow)
  /\ UNCHANGED bookings

(* order.paid is handled as a capture of the order's payment. *)
Handle(e) == IF e.kind = "payment.failed" THEN HandlePaymentFailed(OrderOf(e.pay))
                                          ELSE HandlePaymentCaptured(OrderOf(e.pay), e.pay)

(* The 200 may be lost, and then Razorpay delivers the event again. *)
RunHandler(e) ==
  /\ e \in running
  /\ Handle(e)
  /\ running' = running \ {e}
  /\ owed' \in {owed, owed \ {e}}
  /\ UNCHANGED <<checkout, attempt, verifying, recorded, dropped>>

(* The handler throws, or the process dies: the event stays owed, and, if  *)
(* it was recorded, its redelivery will be taken for a duplicate.          *)
HandlerFails(e) ==
  /\ e \in running
  /\ running' = running \ {e}
  /\ dropped' = IF e \in recorded THEN dropped \cup {e} ELSE dropped
  /\ UNCHANGED <<row, bookings, order, checkout, gatewayVars, verifying, recorded>>

-----------------------------------------------------------------------------
CreateOrder == \/ \E c \in Customers : CreateOrderExisting(c)
               \/ \E c \in Customers, S \in SUBSET Seats \ {{}}, o \in OrderIds : CreateOrderCheck(c, S, o)
               \/ \E o \in OrderIds : CreateOrderInsert(o) \/ CreateOrderFails(o) \/ OrderAges(o)

VerifyPayment ==
  \E v \in VerifyCalls : \/ \E p \in PayIds, c \in Customers : VerifyPaymentRead(v, p, c)
                         \/ VerifyPaymentCommit(v) \/ VerifyPaymentFails(v)

Deliver(e) == DeliverNew(e) \/ DeliverDuplicate(e) \/ DeliverUnrecorded(e)

HandleWebhook == \E e \in Event : Deliver(e) \/ RunHandler(e) \/ HandlerFails(e)

Pay == \E c \in Customers, p \in PayIds, outcome \in {"captured", "failed"} : Attempt(c, p, outcome)

PayNext == Seating \/ CreateOrder \/ Pay \/ VerifyPayment \/ HandleWebhook

PaySpec == PayInit /\ [][PayNext]_payVars

(* Razorpay delivers an event until it is acknowledged, and a handler that *)
(* is started again and again runs to its end once.  Customers and the     *)
(* clock owe nothing, and verifyPayment may never be called.               *)
WebhookFairness == \A e \in Event : WF_payVars(Deliver(e)) /\ SF_payVars(RunHandler(e))

FairPaySpec == PaySpec /\ WebhookFairness

-----------------------------------------------------------------------------
PayTypeOK ==
  /\ row \in [Seats -> SeatRow]
  /\ bookings \in Seq(PaymentBooking)
  /\ order \in [OrderIds -> OrderRow]
  /\ checkout \in [Customers -> OrderIds \cup {NoOrder}]
  /\ attempt \in [PayIds -> [order : OrderIds \cup {NoOrder}, status : {"none", "failed", "captured"}]]
  /\ verifying \in [VerifyCalls -> VerifyCall \cup {NoCall}]
  /\ owed \subseteq Event /\ recorded \subseteq Event
  /\ running \subseteq Event /\ dropped \subseteq recorded

(* One order gives at most one booking, however verify calls, retries and  *)
(* the two webhooks of a capture race (payment.Controller.js:207-211,      *)
(* migration_idempotency.sql:3-4), and only a captured payment gives one.  *)
OneBookingPerOrder ==
  /\ \A i \in DOMAIN bookings : bookings[i].pay # NoPayment => attempt[bookings[i].pay].status = "captured"
  /\ \A i, j \in DOMAIN bookings :
       /\ i # j
       /\ bookings[i].pay # NoPayment /\ bookings[j].pay # NoPayment
       => OrderOf(bookings[i].pay) # OrderOf(bookings[j].pay)

(* A paid order always has the booking it was paid for: same payment, same *)
(* seats.  verifyPayment answers a retry from it.  The booking's customer  *)
(* is the order's, or whoever was signed in where verifyPayment was called *)
(* from (payment.Controller.js:215, 283-290).                              *)
PaidOrderHasBooking ==
  \A o \in OrderIds : order[o].status = "paid" =>
    \E i \in DOMAIN bookings : bookings[i].seats = order[o].seats /\ bookings[i].pay = order[o].pay

(* A BOOKED seat is on somebody's booking: no path marks a seat sold       *)
(* without inserting, or finding, the booking in the same transaction.     *)
BookedSeatIsListed ==
  \A s \in Seats : row[s].status = "BOOKED" => \E i \in DOMAIN bookings : s \in bookings[i].seats

(* Money taken is never forgotten: a captured payment has its booking, or  *)
(* an event that reports it is on its way or being handled, or every such  *)
(* event was recorded and then lost to a failed handler                    *)
(* (payment.Controller.js:461-504).                                        *)
CaptureIsTracked ==
  \A p \in PayIds : attempt[p].status = "captured" =>
    \/ HasBooking(p)
    \/ EventsOf(p, "captured") \cap ((owed \ recorded) \cup running) # {}
    \/ EventsOf(p, "captured") \subseteq dropped

-----------------------------------------------------------------------------
(* What comments of the repository say and the code does not do.           *)

(* payment.Controller.js:595-596: a 500 makes Razorpay retry, and the      *)
(* deduplication stops only events that were committed; so a captured      *)
(* payment would always become a booking.                                  *)
CapturedIsBooked ==
  \A p \in PayIds : attempt[p].status = "captured" ~> HasBooking(p)
=============================================================================
