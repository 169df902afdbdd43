--------------------------- MODULE PaymentsProofs ---------------------------
(***************************************************************************)
(* Proofs about Payments, for any customers, seats, orders, payments,      *)
(* concurrent verify calls and subscribed events.                          *)
(*                                                                         *)
(* A payment reaches the bookings through calls and events that carry      *)
(* nothing but its id.  The inductive invariant ties the ids together:     *)
(* calls and events are about payments that were made (CallsFit), an order *)
(* has one captured payment (CapturedOnce), a booking is that of its       *)
(* payment's order (BookingsFit), and an event of a captured payment that  *)
(* is not booked is on its way, being handled or dropped (EventsTracked).  *)
(***************************************************************************)
EXTENDS Payments, SeatLedgerProofs

Captured(p) == attempt[p].status = "captured"
Placed(o) == order[o].status \in {"created", "paid", "failed"}

RowsFit ==
  \A s \in Seats : /\ row[s].status \in {"HELD", "BOOKED"} <=> row[s].by # NoCustomer
                   /\ row[s].lapsed => row[s].status = "HELD"

OrdersFit ==
  \A o \in OrderIds :
    /\ order[o].status # "none" => order[o].who \in Customers
    /\ order[o].status = "paid" =>
         order[o].pay \in PayIds /\ Captured(order[o].pay) /\ OrderOf(order[o].pay) = o

(* An order that was handed to a checkout stays placed. *)
PaymentsFit ==
  /\ \A c \in Customers : checkout[c] # NoOrder => Placed(checkout[c])
  /\ \A p \in PayIds : attempt[p].status # "none" => OrderOf(p) \in OrderIds /\ Placed(OrderOf(p))

CapturedOnce ==
  \A p, q \in PayIds : Captured(p) /\ Captured(q) /\ OrderOf(p) = OrderOf(q) => p = q

(* What an event says of its payment is so. *)
Tells(e) == IF e.kind = "payment.failed" THEN attempt[e.pay].status = "failed" ELSE Captured(e.pay)

CallsFit ==
  /\ \A v \in VerifyCalls : verifying[v] # NoCall => Captured(verifying[v].pay)
  /\ \A e \in owed \cup recorded \cup running : Tells(e)

BookingsFit ==
  /\ \A i \in DOMAIN bookings : bookings[i].pay # NoPayment =>
       /\ Captured(bookings[i].pay)
       /\ bookings[i].seats = order[OrderOf(bookings[i].pay)].seats
  /\ \A i, j \in DOMAIN bookings : bookings[i].pay # NoPayment /\ bookings[i].pay = bookings[j].pay => i = j

EventsTracked ==
  /\ running \ recorded \subseteq owed
  /\ \A p \in PayIds : Captured(p) /\ ~HasBooking(p) =>
       EventsOf(p, "captured") \subseteq (owed \ recorded) \cup running \cup dropped

PaymentsInv ==
  /\ PayTypeOK /\ RowsFit /\ OrdersFit /\ PaymentsFit /\ CapturedOnce /\ CallsFit /\ BookingsFit
  /\ EventsTracked /\ PaidOrderHasBooking /\ BookedSeatIsListed

-----------------------------------------------------------------------------
(* Lemmas about rows of orders and of bookings. *)

(* The statements that change an order write a row of payment_orders. *)
LEMMA OrderRows ==
  ASSUME NEW r \in OrderRow
  PROVE  /\ NoRecord \in OrderRow
         /\ \A c \in Customers, S \in SUBSET Seats :
              LET new == [NoRecord EXCEPT !.status = "pricing", !.who = c, !.seats = S] IN
              new \in OrderRow /\ new.status = "pricing" /\ new.who = c
         /\ [r EXCEPT !.status = "failed"] \in OrderRow
         /\ [r EXCEPT !.recent = FALSE] \in OrderRow
         /\ [r EXCEPT !.status = "created", !.recent = TRUE] \in OrderRow
         /\ \A p \in PayIds : [r EXCEPT !.status = "paid", !.pay = p] \in OrderRow
  BY DEF OrderRow, NoRecord

(* An order that was paid has one captured payment, and its booking.  *)
LEMMA PaidOrderIsBooked ==
  ASSUME PaymentsInv, NEW p \in PayIds, Captured(p), order[OrderOf(p)].status = "paid"
  PROVE  HasBooking(p)
  <1>1. OrderOf(p) \in OrderIds
    BY DEF PaymentsInv, PaymentsFit, Captured
  <1>2. order[OrderOf(p)].pay = p
    BY <1>1 DEF PaymentsInv, OrdersFit, CapturedOnce
  <1>3. PICK i \in DOMAIN bookings : bookings[i].pay = order[OrderOf(p)].pay
    BY <1>1 DEF PaymentsInv, PaidOrderHasBooking
  <1> QED BY <1>2, <1>3 DEF HasBooking

(* A seat endpoint appends at most one booking, without a payment, and     *)
(* only that one's seats become BOOKED.                                    *)
LEMMA SeatingRows ==
  ASSUME PaymentsInv, LedgerNext
  PROVE  /\ row' \in [Seats -> SeatRow] /\ RowsFit'
         /\ \/ /\ bookings' = bookings
               /\ \A s \in Seats : row'[s].status = "BOOKED" => row[s].status = "BOOKED"
            \/ \E b \in PaymentBooking :
                 /\ b.pay = NoPayment /\ bookings' = Append(bookings, b)
                 /\ \A s \in Seats : row'[s].status = "BOOKED" => row[s].status = "BOOKED" \/ s \in b.seats
  <1> USE CustomerAssumption
  <1>0. row \in [Seats -> SeatRow] /\ RowsFit
    BY DEF PaymentsInv, PayTypeOK
  <1>1. ASSUME NEW S \in SUBSET Seats, NEW c \in Customers, HoldSeats(c, S)
        PROVE  /\ row' \in [Seats -> SeatRow] /\ RowsFit' /\ bookings' = bookings
               /\ \A s \in Seats : row'[s].status = "BOOKED" => row[s].status = "BOOKED"
    <2>1. PICK late \in BOOLEAN : row' = With(S, HeldRow(c, late))
      BY <1>1 DEF HoldSeats
    <2>2. row' \in [Seats -> SeatRow]
      BY <2>1, <1>0, RowTypes DEF With
    <2>3. \A s \in Seats : row'[s] = row[s] \/ row'[s] = HeldRow(c, late)
      BY <2>1 DEF With
    <2> QED BY <1>0, <1>1, <2>2, <2>3 DEF HeldRow, RowsFit, HoldSeats
  <1>2. ASSUME NEW S \in SUBSET Seats, NEW c \in Customers, ConfirmBooking(c, S)
        PROVE  /\ row' \in [Seats -> SeatRow] /\ RowsFit'
               /\ \E b \in PaymentBooking :
                    /\ b.pay = NoPayment /\ bookings' = Append(bookings, b)
                    /\ \A s \in Seats : row'[s].status = "BOOKED" => row[s].status = "BOOKED" \/ s \in b.seats
    <2>2. row' \in [Seats -> SeatRow]
      BY <1>2, <1>0, RowTypes DEF With, ConfirmBooking
    <2>3. \A s \in Seats : IF s \in S THEN row'[s] = BookedRow(c) ELSE row'[s] = row[s]
      BY <1>2 DEF With, ConfirmBooking
    <2>4. RowsFit'
      BY <1>0, <2>2, <2>3 DEF RowsFit, BookedRow
    <2>5. [who |-> c, seats |-> S, pay |-> NoPayment] \in PaymentBooking
      BY DEF PaymentBooking
    <2> QED BY <1>2, <2>2, <2>3, <2>4, <2>5 DEF ConfirmBooking
  <1>3. ASSUME NEW S \in SUBSET Seats, row' = With(S, NoRow), UNCHANGED bookings
        PROVE  /\ row' \in [Seats -> SeatRow] /\ RowsFit' /\ bookings' = bookings
               /\ \A s \in Seats : row'[s].status = "BOOKED" => row[s].status = "BOOKED"
    <2>1. row' \in [Seats -> SeatRow]
      BY <1>3, <1>0, RowTypes DEF With
    <2>2. \A s \in Seats : row'[s] = row[s] \/ row'[s] = NoRow
      BY <1>3 DEF With
    <2>3. NoRow.status = "ABSENT" /\ ~NoRow.lapsed /\ NoRow.by = NoCustomer
      BY DEF NoRow
    <2>4. RowsFit'
      BY <1>0, <2>2, <2>3 DEF RowsFit
    <2> QED BY <1>3, <2>1, <2>2, <2>3, <2>4
  <1>4. ASSUME NEW S \in SUBSET Seats, Lapse(S)
        PROVE  /\ row' \in [Seats -> SeatRow] /\ RowsFit' /\ bookings' = bookings
               /\ \A s \in Seats : row'[s].status = "BOOKED" => row[s].status = "BOOKED"
    <2>1. \A s \in S : row[s].by \in Customers
      BY <1>4, <1>0 DEF Lapse, RowsFit, SeatRow
    <2>2. row' \in [Seats -> SeatRow]
      BY <1>4, <1>0, <2>1, RowTypes DEF Lapse
    <2>3. \A s \in Seats : row'[s] = row[s] \/ (row[s].by \in Customers /\ row'[s] = HeldRow(row[s].by, TRUE))
      BY <1>4, <2>1 DEF Lapse
    <2> QED BY <1>0, <1>4, <2>2, <2>3 DEF HeldRow, RowsFit, Lapse
  <1> QED BY <1>1, <1>2, <1>3, <1>4 DEF LedgerNext, ReleaseSeats, CleanupExpiredHolds

(* A booking with a payment is that of a captured payment of an order.     *)
LEMMA PaidBookingFits ==
  ASSUME PaymentsInv, NEW i \in DOMAIN bookings, bookings[i].pay # NoPayment
  PROVE  /\ bookings[i].pay \in PayIds /\ Captured(bookings[i].pay)
         /\ OrderOf(bookings[i].pay) \in OrderIds /\ Placed(OrderOf(bookings[i].pay))
         /\ bookings[i].seats = order[OrderOf(bookings[i].pay)].seats
  <1>1. bookings \in Seq(PaymentBooking)
    BY DEF PaymentsInv, PayTypeOK
  <1>2. bookings[i] \in PaymentBooking
    BY <1>1
  <1>3. bookings[i].pay \in PayIds
    BY <1>2 DEF PaymentBooking
  <1>4. Captured(bookings[i].pay) /\ bookings[i].seats = order[OrderOf(bookings[i].pay)].seats
    BY DEF PaymentsInv, BookingsFit
  <1>5. OrderOf(bookings[i].pay) \in OrderIds /\ Placed(OrderOf(bookings[i].pay))
    BY <1>3, <1>4 DEF PaymentsInv, PaymentsFit, Captured
  <1> QED BY <1>3, <1>4, <1>5

(* What appending one paid booking, or none, does to the bookings.         *)
LEMMA InsertedBooking ==
  ASSUME PaymentsInv, NEW p \in PayIds, Captured(p), NEW c \in Customers,
         InsertBooking(OrderOf(p), p, c)
  PROVE  /\ bookings' \in Seq(PaymentBooking)
         /\ \A i \in DOMAIN bookings : i \in DOMAIN bookings' /\ bookings'[i] = bookings[i]
         /\ \A i \in DOMAIN bookings' : \/ i \in DOMAIN bookings
                                        \/ bookings'[i].pay = p /\ bookings'[i].seats = order[OrderOf(p)].seats
         /\ \A i \in DOMAIN bookings' \ DOMAIN bookings, j \in DOMAIN bookings' :
              bookings'[j].pay = p => i = j
         /\ \E i \in DOMAIN bookings' :
              bookings'[i].pay = p /\ bookings'[i].seats = order[OrderOf(p)].seats
  <1>1. bookings \in Seq(PaymentBooking) /\ OrderOf(p) \in OrderIds /\ order[OrderOf(p)] \in OrderRow
    BY DEF PaymentsInv, PayTypeOK, PaymentsFit, Captured
  <1>2. CASE HasBooking(p)
    <2>1. bookings' = bookings
      BY <1>2 DEF InsertBooking
    <2>2. PICK i \in DOMAIN bookings : bookings[i].pay = p
      BY <1>2 DEF HasBooking
    <2>3. bookings[i].seats = order[OrderOf(p)].seats
      BY <2>2, PaymentsAssumption DEF PaymentsInv, BookingsFit
    <2> QED BY <1>1, <2>1, <2>2, <2>3
  <1>3. CASE ~HasBooking(p)
    <2> DEFINE b == PaidBooking(OrderOf(p), p, c)
    <2>1. bookings' = Append(bookings, b) /\ \A i \in DOMAIN bookings : bookings[i].pay # p
      BY <1>3 DEF InsertBooking, HasBooking
    <2>2. b \in PaymentBooking /\ b.pay = p /\ b.seats = order[OrderOf(p)].seats
      BY <1>1 DEF PaidBooking, PaymentBooking, OrderRow
    <2> HIDE DEF b
    <2>3. /\ bookings' \in Seq(PaymentBooking)
          /\ DOMAIN bookings' = DOMAIN bookings \cup {Len(bookings) + 1}
          /\ Len(bookings) + 1 \notin DOMAIN bookings
          /\ \A i \in DOMAIN bookings : bookings'[i] = bookings[i]
          /\ bookings'[Len(bookings) + 1] = b
      BY <1>1, <2>1, <2>2, AppendBooking
    <2> QED BY <2>1, <2>2, <2>3
  <1> QED BY <1>2, <1>3

(* The two transactions that book a captured payment, verifyPayment's and  *)
(* handlePaymentCaptured's, as far as rows, orders and bookings go.        *)
LEMMA BookStep ==
  ASSUME PaymentsInv, NEW p \in PayIds, Captured(p), NEW o, o = OrderOf(p),
         row' \in [Seats -> SeatRow],
         \A s \in Seats : row'[s] # row[s] =>
           s \in order[o].seats /\ \E c \in Customers : row'[s] = BookedRow(c),
         NEW who \in Customers, InsertBooking(o, p, who), MarkPaid(o, p), UNCHANGED <<checkout, attempt>>
  PROVE  /\ order' \in [OrderIds -> OrderRow] /\ bookings' \in Seq(PaymentBooking)
         /\ RowsFit' /\ OrdersFit' /\ PaymentsFit' /\ CapturedOnce' /\ BookingsFit'
         /\ PaidOrderHasBooking' /\ BookedSeatIsListed'
         /\ HasBooking(p)' /\ \A q \in PayIds : HasBooking(q) => HasBooking(q)'
  <1> USE DEF Captured, Placed
  <1>1. o \in OrderIds /\ order \in [OrderIds -> OrderRow] /\ Placed(o) /\ order[o].who \in Customers
    BY DEF PaymentsInv, PayTypeOK, PaymentsFit, OrdersFit
  <1>2. order' \in [OrderIds -> OrderRow]
    BY <1>1, OrderRows DEF MarkPaid
  <1>3. /\ \A x \in OrderIds : order'[x].who = order[x].who /\ order'[x].seats = order[x].seats
        /\ order'[o].status = "paid" /\ order'[o].pay = p
        /\ \A x \in OrderIds \ {o} : order'[x] = order[x]
    BY <1>1 DEF MarkPaid, OrderRow
  <1>4. /\ bookings' \in Seq(PaymentBooking)
        /\ \A i \in DOMAIN bookings : i \in DOMAIN bookings' /\ bookings'[i] = bookings[i]
        /\ \A i \in DOMAIN bookings' : \/ i \in DOMAIN bookings
                                       \/ bookings'[i].pay = p /\ bookings'[i].seats = order[o].seats
        /\ \A i \in DOMAIN bookings' \ DOMAIN bookings, j \in DOMAIN bookings' :
             bookings'[j].pay = p => i = j
        /\ \E i \in DOMAIN bookings' : bookings'[i].pay = p /\ bookings'[i].seats = order[o].seats
    BY InsertedBooking
  <1>7. RowsFit'
    <2>1. \A c \in Customers : BookedRow(c).status = "BOOKED" /\ ~BookedRow(c).lapsed /\ BookedRow(c).by # NoCustomer
      BY CustomerAssumption DEF BookedRow
    <2> QED BY <2>1 DEF PaymentsInv, RowsFit
  <1>8. OrdersFit'
    BY <1>1, <1>3 DEF PaymentsInv, OrdersFit, OrderOf
  <1>9. PaymentsFit'
    BY <1>1, <1>3 DEF PaymentsInv, PaymentsFit, OrderOf, PayTypeOK
  <1>10. CapturedOnce'
    BY DEF PaymentsInv, CapturedOnce, OrderOf
  <1>11. BookingsFit'
    <2>1. ASSUME NEW i \in DOMAIN bookings', bookings'[i].pay # NoPayment
          PROVE  (/\ Captured(bookings[i].pay)
                  /\ bookings[i].seats = order[OrderOf(bookings[i].pay)].seats)'
      <3>1. CASE i \in DOMAIN bookings
        <4>1. /\ bookings[i].pay \in PayIds /\ Captured(bookings[i].pay)
              /\ bookings[i].seats = order[OrderOf(bookings[i].pay)].seats
              /\ OrderOf(bookings[i].pay) \in OrderIds
          BY <2>1, <3>1, <1>4, PaidBookingFits
        <4> QED BY <3>1, <4>1, <1>3, <1>4 DEF OrderOf
      <3>2. CASE i \notin DOMAIN bookings
        <4>1. bookings'[i].seats = order[o].seats /\ bookings'[i].pay = p
          BY <3>2, <1>4
        <4> QED BY <4>1, <1>1, <1>3 DEF OrderOf
      <3> QED BY <3>1, <3>2
    <2>2. ASSUME NEW i \in DOMAIN bookings', NEW j \in DOMAIN bookings', i # j,
                 bookings'[i].pay # NoPayment, bookings'[i].pay = bookings'[j].pay
          PROVE  FALSE
      <3>1. CASE i \in DOMAIN bookings /\ j \in DOMAIN bookings
        BY <2>2, <3>1, <1>4 DEF PaymentsInv, BookingsFit
      <3>2. CASE i \notin DOMAIN bookings \/ j \notin DOMAIN bookings
        BY <2>2, <3>2, <1>4
      <3> QED BY <3>1, <3>2
    <2> QED BY <2>1, <2>2 DEF BookingsFit
  <1>12. PaidOrderHasBooking'
    <2>1. ASSUME NEW x \in OrderIds, order'[x].status = "paid"
          PROVE  \E i \in DOMAIN bookings' :
                   bookings'[i].seats = order'[x].seats /\ bookings'[i].pay = order'[x].pay
      <3>1. CASE x = o
        BY <3>1, <1>3, <1>4
      <3>2. CASE x # o
        BY <2>1, <3>2, <1>3, <1>4 DEF PaymentsInv, PaidOrderHasBooking
      <3> QED BY <3>1, <3>2
    <2> QED BY <2>1 DEF PaidOrderHasBooking
  <1>13. BookedSeatIsListed'
    <2>1. ASSUME NEW s \in Seats, row'[s].status = "BOOKED"
          PROVE  \E i \in DOMAIN bookings' : s \in bookings'[i].seats
      <3>1. CASE row'[s] = row[s]
        BY <2>1, <3>1, <1>4 DEF PaymentsInv, BookedSeatIsListed
      <3>2. CASE row'[s] # row[s]
        BY <2>1, <3>2, <1>4 DEF BookedRow
      <3> QED BY <3>1, <3>2
    <2> QED BY <2>1 DEF BookedSeatIsListed
  <1>14. HasBooking(p)' /\ \A q \in PayIds : HasBooking(q) => HasBooking(q)'
    BY <1>4 DEF HasBooking
  <1> QED BY <1>2, <1>4, <1>7, <1>8, <1>9, <1>10, <1>11, <1>12, <1>13, <1>14

(* A step that leaves bookings and attempts alone, and orders as far as    *)
(* they were placed, keeps what the invariant says of the three.           *)
LEMMA OrderStep ==
  ASSUME PaymentsInv, order' \in [OrderIds -> OrderRow],
         \A x \in OrderIds : Placed(x) => /\ Placed(x)'
                                          /\ order'[x].who = order[x].who
                                          /\ order'[x].seats = order[x].seats,
         \A x \in OrderIds : order'[x].status # "none" => order'[x].who \in Customers,
         \A x \in OrderIds : order'[x].status = "paid" => order[x].status = "paid" /\ order'[x].pay = order[x].pay,
         \A c \in Customers : checkout'[c] # NoOrder => checkout'[c] = checkout[c] \/ Placed(checkout[c])',
         checkout' \in [Customers -> OrderIds \cup {NoOrder}],
         UNCHANGED <<bookings, attempt>>
  PROVE  OrdersFit' /\ PaymentsFit' /\ CapturedOnce' /\ BookingsFit' /\ PaidOrderHasBooking'
  <1> USE DEF PaymentsInv, Captured, OrderOf
  <1>1. OrdersFit'
    BY DEF OrdersFit
  <1>2. PaymentsFit'
    <2>1. ASSUME NEW c \in Customers, checkout'[c] # NoOrder
          PROVE  Placed(checkout[c])'
      BY <2>1 DEF PaymentsFit, PayTypeOK
    <2>2. ASSUME NEW p \in PayIds, attempt[p].status # "none"
          PROVE  OrderOf(p) \in OrderIds /\ Placed(OrderOf(p))'
      BY <2>2 DEF PaymentsFit
    <2> QED BY <2>1, <2>2 DEF PaymentsFit
  <1>3. CapturedOnce'
    BY DEF CapturedOnce
  <1>4. BookingsFit'
    <2>1. ASSUME NEW i \in DOMAIN bookings, bookings[i].pay # NoPayment
          PROVE  order'[OrderOf(bookings[i].pay)].seats = order[OrderOf(bookings[i].pay)].seats
      BY <2>1, PaidBookingFits
    <2> QED BY <2>1 DEF BookingsFit
  <1>5. PaidOrderHasBooking'
    <2>1. ASSUME NEW x \in OrderIds, order'[x].status = "paid"
          PROVE  /\ order[x].status = "paid" /\ order'[x].pay = order[x].pay
                 /\ order'[x].who = order[x].who /\ order'[x].seats = order[x].seats
      BY <2>1 DEF Placed
    <2> QED BY <2>1 DEF PaidOrderHasBooking
  <1> QED BY <1>1, <1>2, <1>3, <1>4, <1>5

(* A step without a new attempt, call or event keeps the old ones true.    *)
LEMMA CallStep ==
  ASSUME PaymentsInv, UNCHANGED attempt,
         \A v \in VerifyCalls : verifying'[v] \in {NoCall, verifying[v]} \/ Captured(verifying'[v].pay),
         owed' \cup recorded' \cup running' \subseteq owed \cup recorded \cup running
  PROVE  CallsFit' /\ CapturedOnce'
  <1>1. /\ \A e : Tells(e)' = Tells(e)
        /\ \A p : Captured(p)' = Captured(p) /\ OrderOf(p)' = OrderOf(p)
    BY DEF Tells, Captured, OrderOf
  <1>2. CallsFit'
    BY <1>1 DEF PaymentsInv, CallsFit
  <1>3. CapturedOnce'
    BY <1>1 DEF PaymentsInv, CapturedOnce
  <1> QED BY <1>2, <1>3

(* A step that drops no event and loses no booking keeps captures tracked. *)
LEMMA TrackStep ==
  ASSUME PaymentsInv, UNCHANGED <<attempt>>,
         running' \ recorded' \subseteq owed',
         \A p \in PayIds : HasBooking(p) => HasBooking(p)',
         \A e \in (owed \ recorded) \cup running \cup dropped :
           \/ e \in (owed' \ recorded') \cup running' \cup dropped'
           \/ e.kind = "payment.failed"
           \/ HasBooking(e.pay)'
  PROVE  EventsTracked'
  <1>1. \A p : Captured(p)' = Captured(p) /\ EventsOf(p, "captured")' = EventsOf(p, "captured")
    BY DEF Captured, EventsOf
  <1>2. \A p \in PayIds : \A e \in EventsOf(p, "captured") : e.pay = p /\ e.kind # "payment.failed"
    BY DEF EventsOf
  <1>3. ASSUME NEW p \in PayIds, Captured(p), ~HasBooking(p)', NEW e \in EventsOf(p, "captured")
        PROVE  e \in (owed' \ recorded') \cup running' \cup dropped'
    <2>1. e \in (owed \ recorded) \cup running \cup dropped
      BY <1>3 DEF PaymentsInv, EventsTracked
    <2>2. ~HasBooking(e.pay)' /\ e.kind # "payment.failed"
      BY <1>2, <1>3
    <2> QED BY <2>1, <2>2
  <1> QED BY <1>1, <1>3 DEF EventsTracked

-----------------------------------------------------------------------------
(* One lemma per group of actions. *)

LEMMA PayInitInv == PayInit => PaymentsInv
  <1> SUFFICES ASSUME PayInit PROVE PaymentsInv
    OBVIOUS
  <1> USE DEF PayInit
  <1>1. bookings = << >> /\ DOMAIN bookings = {} /\ bookings \in Seq(PaymentBooking)
    BY DEF LedgerInit
  <1>2. row \in [Seats -> SeatRow] /\ \A s \in Seats : row[s] = NoRow \/ row[s] = OpenRow
    BY RowTypes DEF LedgerInit
  <1>3. \A o \in OrderIds : order[o] = NoRecord
    OBVIOUS
  <1>4. NoRecord \in OrderRow /\ NoRecord.status = "none"
    BY DEF NoRecord, OrderRow
  <1>5. PayTypeOK
    BY <1>1, <1>2, <1>4, PaymentsAssumption DEF PayTypeOK
  <1>6. RowsFit /\ BookedSeatIsListed
    BY <1>2 DEF RowsFit, BookedSeatIsListed, NoRow, OpenRow
  <1>7. OrdersFit /\ PaidOrderHasBooking
    BY <1>3, <1>4 DEF OrdersFit, PaidOrderHasBooking
  <1>8. PaymentsFit /\ CapturedOnce
    BY DEF PaymentsFit, CapturedOnce, Captured
  <1>9. CallsFit /\ BookingsFit /\ EventsTracked
    BY <1>1 DEF CallsFit, BookingsFit, EventsTracked, Captured
  <1> QED BY <1>5, <1>6, <1>7, <1>8, <1>9 DEF PaymentsInv

LEMMA SeatingStep ==
  ASSUME PaymentsInv, Seating
  PROVE  PaymentsInv'
  <1> USE DEF Captured
  <1>1. /\ row' \in [Seats -> SeatRow] /\ RowsFit'
        /\ \/ /\ bookings' = bookings
              /\ \A s \in Seats : row'[s].status = "BOOKED" => row[s].status = "BOOKED"
           \/ \E b \in PaymentBooking :
                /\ b.pay = NoPayment /\ bookings' = Append(bookings, b)
                /\ \A s \in Seats : row'[s].status = "BOOKED" => row[s].status = "BOOKED" \/ s \in b.seats
    BY SeatingRows DEF Seating
  <1>2. UNCHANGED <<order, checkout, attempt, owed, verifying, recorded, running, dropped>>
    BY DEF Seating, gatewayVars, serverVars
  <1>3. /\ bookings' \in Seq(PaymentBooking)
        /\ \A i \in DOMAIN bookings : i \in DOMAIN bookings' /\ bookings'[i] = bookings[i]
        /\ \A i \in DOMAIN bookings' : i \in DOMAIN bookings \/ bookings'[i].pay = NoPayment
        /\ \A s \in Seats : row'[s].status = "BOOKED" =>
             row[s].status = "BOOKED" \/ \E i \in DOMAIN bookings' : s \in bookings'[i].seats
    <2>1. bookings \in Seq(PaymentBooking)
      BY DEF PaymentsInv, PayTypeOK
    <2>2. CASE bookings' = bookings
      BY <2>1, <2>2, <1>1
    <2>3. CASE bookings' # bookings
      <3>1. PICK b \in PaymentBooking :
              /\ b.pay = NoPayment /\ bookings' = Append(bookings, b)
              /\ \A s \in Seats : row'[s].status = "BOOKED" => row[s].status = "BOOKED" \/ s \in b.seats
        BY <2>3, <1>1
      <3>2. /\ bookings' \in Seq(PaymentBooking)
            /\ DOMAIN bookings' = DOMAIN bookings \cup {Len(bookings) + 1}
            /\ \A i \in DOMAIN bookings : bookings'[i] = bookings[i]
            /\ bookings'[Len(bookings) + 1] = b
        BY <2>1, <3>1, AppendBooking
      <3> QED BY <3>1, <3>2
    <2> QED BY <2>2, <2>3
  <1>4. PayTypeOK' /\ OrdersFit' /\ PaymentsFit' /\ CapturedOnce' /\ CallsFit'
    <2>1. PayTypeOK'
      BY <1>1, <1>2, <1>3 DEF PaymentsInv, PayTypeOK
    <2>2. OrdersFit' /\ PaymentsFit'
      BY <1>2 DEF PaymentsInv, OrdersFit, PaymentsFit, OrderOf, Placed
    <2>3. CapturedOnce' /\ CallsFit'
      BY <1>2 DEF PaymentsInv, CapturedOnce, CallsFit, OrderOf, Tells
    <2> QED BY <2>1, <2>2, <2>3
  <1>5. BookingsFit'
    <2>1. \A p : OrderOf(p)' = OrderOf(p) /\ Captured(p)' = Captured(p)
      BY <1>2 DEF OrderOf
    <2>2. ASSUME NEW i \in DOMAIN bookings', bookings'[i].pay # NoPayment
          PROVE  i \in DOMAIN bookings /\ bookings'[i] = bookings[i]
      BY <2>2, <1>3
    <2> QED BY <1>2, <2>1, <2>2 DEF PaymentsInv, BookingsFit
  <1>6. EventsTracked'
    <2>1. \A p \in PayIds : /\ EventsOf(p, "captured")' = EventsOf(p, "captured")
                           /\ HasBooking(p) => HasBooking(p)'
      BY <1>3 DEF EventsOf, HasBooking
    <2> QED BY <1>2, <2>1 DEF PaymentsInv, EventsTracked
  <1>7. PaidOrderHasBooking' /\ BookedSeatIsListed'
    <2>1. PaidOrderHasBooking'
      BY <1>2, <1>3 DEF PaymentsInv, PaidOrderHasBooking
    <2>2. BookedSeatIsListed'
      BY <1>3 DEF PaymentsInv, BookedSeatIsListed
    <2> QED BY <2>1, <2>2
  <1> QED BY <1>1, <1>4, <1>5, <1>6, <1>7 DEF PaymentsInv

LEMMA CreateOrderStep ==
  ASSUME PaymentsInv, CreateOrder
  PROVE  PaymentsInv'
  <1> USE DEF Placed, gatewayVars, serverVars
  <1>1. /\ order \in [OrderIds -> OrderRow]
        /\ checkout \in [Customers -> OrderIds \cup {NoOrder}]
        /\ \A o \in OrderIds : order[o].status # "none" => order[o].who \in Customers
    BY DEF PaymentsInv, PayTypeOK, OrdersFit
  <1> DEFINE Kept ==
        /\ UNCHANGED <<row, bookings, attempt, owed, verifying, recorded, running, dropped>>
        /\ order' \in [OrderIds -> OrderRow]
        /\ checkout' \in [Customers -> OrderIds \cup {NoOrder}]
        /\ \A x \in OrderIds : order[x].status \in {"created", "paid", "failed"} =>
             /\ order'[x].status = order[x].status
             /\ order'[x].who = order[x].who /\ order'[x].seats = order[x].seats
        /\ \A x \in OrderIds : order'[x].status # "none" => order'[x].who \in Customers
        /\ \A x \in OrderIds : order'[x].status = "paid" => order[x].status = "paid" /\ order'[x].pay = order[x].pay
        /\ \A c \in Customers : checkout'[c] # checkout[c] => order'[checkout'[c]].status = "created"
  <1>2. Kept
    <2>1. ASSUME NEW c \in Customers, CreateOrderExisting(c) PROVE Kept
      BY <2>1, <1>1 DEF CreateOrderExisting, ActiveOrders
    <2>2. ASSUME NEW c \in Customers, NEW S \in SUBSET Seats, NEW o \in OrderIds, CreateOrderCheck(c, S, o)
          PROVE  Kept
      <3> DEFINE new == [NoRecord EXCEPT !.status = "pricing", !.who = c, !.seats = S]
      <3>1. new \in OrderRow /\ new.status = "pricing" /\ new.who = c
        BY <1>1, OrderRows
      <3>2. order' = [order EXCEPT ![o] = new] /\ order[o].status = "none"
        BY <2>2 DEF CreateOrderCheck
      <3> HIDE DEF new
      <3>3. order' \in [OrderIds -> OrderRow] /\ order'[o] = new
            /\ \A x \in OrderIds \ {o} : order'[x] = order[x]
        BY <1>1, <3>1, <3>2
      <3> QED BY <2>2, <1>1, <3>1, <3>2, <3>3 DEF CreateOrderCheck
    <2>3. ASSUME NEW o \in OrderIds, CreateOrderInsert(o) PROVE Kept
      <3>1. order' \in [OrderIds -> OrderRow]
        BY <2>3, <1>1, OrderRows DEF CreateOrderInsert
      <3>2. /\ order[o].status = "pricing" /\ order'[o].status = "created" /\ order'[o].who = order[o].who
            /\ \A x \in OrderIds \ {o} : order'[x] = order[x]
        BY <2>3, <1>1 DEF CreateOrderInsert, OrderRow
      <3>3. checkout' = [checkout EXCEPT ![order[o].who] = o]
        BY <2>3 DEF CreateOrderInsert
      <3> QED BY <2>3, <1>1, <3>1, <3>2, <3>3 DEF CreateOrderInsert
    <2>4. ASSUME NEW o \in OrderIds, CreateOrderFails(o) PROVE Kept
      <3>1. NoRecord \in OrderRow /\ NoRecord.status = "none"
        BY DEF NoRecord, OrderRow
      <3>2. order'[o] = NoRecord /\ order[o].status = "pricing" /\ order' \in [OrderIds -> OrderRow]
            /\ \A x \in OrderIds \ {o} : order'[x] = order[x]
        BY <2>4, <1>1, <3>1 DEF CreateOrderFails
      <3> QED BY <2>4, <1>1, <3>1, <3>2 DEF CreateOrderFails
    <2>5. ASSUME NEW o \in OrderIds, OrderAges(o) PROVE Kept
      <3>1. order' \in [OrderIds -> OrderRow]
        BY <2>5, <1>1, OrderRows DEF OrderAges
      <3>2. /\ \A x \in OrderIds \ {o} : order'[x] = order[x]
            /\ order'[o].status = order[o].status /\ order'[o].who = order[o].who
            /\ order'[o].seats = order[o].seats /\ order'[o].pay = order[o].pay
        BY <2>5, <1>1 DEF OrderAges, OrderRow
      <3> QED BY <2>5, <1>1, <3>1, <3>2 DEF OrderAges
    <2> QED BY <2>1, <2>2, <2>3, <2>4, <2>5 DEF CreateOrder
  <1>3. OrdersFit' /\ PaymentsFit' /\ CapturedOnce' /\ BookingsFit' /\ PaidOrderHasBooking'
    BY <1>2, OrderStep
  <1>4. CallsFit'
    BY <1>2, CallStep
  <1>5. EventsTracked'
    BY <1>2, TrackStep DEF HasBooking, PaymentsInv, EventsTracked
  <1>6. PayTypeOK' /\ RowsFit' /\ BookedSeatIsListed'
    BY <1>2 DEF PaymentsInv, PayTypeOK, RowsFit, BookedSeatIsListed
  <1> QED BY <1>3, <1>4, <1>5, <1>6 DEF PaymentsInv

(* A new attempt is of an order that has no captured payment yet.          *)
LEMMA AttemptStep ==
  ASSUME PaymentsInv, NEW c \in Customers, NEW p \in PayIds, NEW outcome \in {"captured", "failed"},
         Attempt(c, p, outcome)
  PROVE  PaymentsInv'
  <1> DEFINE o == checkout[c]
  <1>1. /\ o \in OrderIds /\ Placed(o)
        /\ attempt[p].status = "none"
        /\ \A q \in PayIds : OrderOf(q) = o => ~Captured(q)
        /\ owed' = owed \cup EventsOf(p, outcome)
        /\ UNCHANGED <<row, bookings, order, checkout, verifying, recorded, running, dropped>>
    BY DEF Attempt, PaymentsInv, PayTypeOK, PaymentsFit, serverVars, Captured
  <1>2. /\ attempt \in [PayIds -> [order : OrderIds \cup {NoOrder}, status : {"none", "failed", "captured"}]]
        /\ attempt' = [attempt EXCEPT ![p] = [order |-> o, status |-> outcome]]
    BY DEF Attempt, PaymentsInv, PayTypeOK
  <1>3. /\ attempt' \in [PayIds -> [order : OrderIds \cup {NoOrder}, status : {"none", "failed", "captured"}]]
        /\ OrderOf(p)' = o /\ attempt'[p].status = outcome
        /\ \A q \in PayIds \ {p} : attempt'[q] = attempt[q]
    BY <1>1, <1>2 DEF OrderOf
  <1>4. \A q \in PayIds : attempt[q].status # "none" =>
          q # p /\ attempt'[q] = attempt[q] /\ OrderOf(q)' = OrderOf(q) /\ Captured(q)' = Captured(q)
    BY <1>1, <1>3 DEF OrderOf, Captured
  <1> HIDE DEF o
  <1>5. EventsOf(p, outcome) \subseteq Event
    BY PaymentsAssumption DEF EventsOf, Event
  <1>6. PayTypeOK'
    BY <1>1, <1>3, <1>5 DEF PaymentsInv, PayTypeOK
  <1>7. RowsFit' /\ PaidOrderHasBooking' /\ BookedSeatIsListed'
    BY <1>1 DEF PaymentsInv, RowsFit, PaidOrderHasBooking, BookedSeatIsListed
  <1>8. OrdersFit'
    BY <1>1, <1>4 DEF PaymentsInv, OrdersFit, Captured
  <1>9. PaymentsFit'
    <2>1. ASSUME NEW q \in PayIds, attempt'[q].status # "none"
          PROVE  OrderOf(q)' \in OrderIds /\ Placed(OrderOf(q))'
      <3>1. CASE q = p
        BY <3>1, <1>1, <1>3 DEF Placed
      <3>2. CASE q # p
        BY <2>1, <3>2, <1>1, <1>3 DEF PaymentsInv, PaymentsFit, OrderOf, Placed
      <3> QED BY <3>1, <3>2
    <2> QED BY <2>1, <1>1 DEF PaymentsInv, PaymentsFit, Placed
  <1>10. CapturedOnce'
    <2>1. ASSUME NEW q \in PayIds, q # p, Captured(q)', OrderOf(q)' = OrderOf(p)' PROVE FALSE
      BY <2>1, <1>1, <1>3 DEF Captured, OrderOf
    <2>2. ASSUME NEW q \in PayIds, q # p PROVE Captured(q)' = Captured(q) /\ OrderOf(q)' = OrderOf(q)
      BY <2>2, <1>3 DEF Captured, OrderOf
    <2> QED BY <2>1, <2>2 DEF PaymentsInv, CapturedOnce
  <1>11. CallsFit'
    <2>1. ASSUME NEW e \in EventsOf(p, outcome) PROVE Tells(e)'
      BY <1>3 DEF EventsOf, Tells, Captured
    <2>2. ASSUME NEW e \in owed \cup recorded \cup running PROVE Tells(e)'
      <3>1. e.pay \in PayIds /\ Tells(e)
        BY DEF PaymentsInv, PayTypeOK, CallsFit, Event
      <3> QED BY <3>1, <1>4 DEF Tells, Captured
    <2>3. ASSUME NEW v \in VerifyCalls, verifying[v] # NoCall PROVE Captured(verifying[v].pay)'
      <3>1. Captured(verifying[v].pay) /\ verifying[v].pay \in PayIds
        BY <2>3 DEF PaymentsInv, PayTypeOK, CallsFit, VerifyCall
      <3> QED BY <3>1, <1>1, <1>4 DEF Captured
    <2> QED BY <2>1, <2>2, <2>3, <1>1 DEF CallsFit
  <1>12. BookingsFit'
    <2>1. ASSUME NEW i \in DOMAIN bookings, bookings[i].pay # NoPayment
          PROVE  /\ Captured(bookings[i].pay)'
                 /\ OrderOf(bookings[i].pay)' = OrderOf(bookings[i].pay)
      <3>1. bookings[i].pay \in PayIds /\ Captured(bookings[i].pay)
        BY <2>1, PaidBookingFits
      <3> QED BY <3>1, <1>1, <1>4 DEF Captured
    <2> QED BY <2>1, <1>1 DEF PaymentsInv, BookingsFit
  <1>13. EventsTracked'
    <2>1. \A q \in PayIds : HasBooking(q)' = HasBooking(q) /\ EventsOf(q, "captured")' = EventsOf(q, "captured")
      BY <1>1 DEF HasBooking, EventsOf
    <2>2. ASSUME NEW q \in PayIds, Captured(q)', ~HasBooking(q)
          PROVE  EventsOf(q, "captured") \subseteq (owed' \ recorded) \cup running \cup dropped
      <3>1. CASE q = p
        <4>1. outcome = "captured"
          BY <3>1, <2>2, <1>3 DEF Captured
        <4>2. ASSUME NEW e \in EventsOf(p, outcome) PROVE e \notin recorded
          <5>1. e.pay = p /\ ~Captured(p) /\ attempt[p].status # "failed"
            BY <1>1 DEF EventsOf, Captured
          <5> QED BY <5>1 DEF PaymentsInv, CallsFit, Tells
        <4> QED BY <3>1, <4>1, <4>2, <1>1
      <3>2. CASE q # p
        BY <2>2, <3>2, <1>1, <1>3 DEF PaymentsInv, EventsTracked, Captured
      <3> QED BY <3>1, <3>2
    <2> QED BY <2>1, <2>2, <1>1 DEF PaymentsInv, EventsTracked
  <1> QED BY <1>6, <1>7, <1>8, <1>9, <1>10, <1>11, <1>12, <1>13 DEF PaymentsInv

LEMMA VerifyPaymentStep ==
  ASSUME PaymentsInv, VerifyPayment
  PROVE  PaymentsInv'
  <1> USE DEF gatewayVars
  <1> DEFINE Read == \E v \in VerifyCalls, p \in PayIds, c \in Customers : VerifyPaymentRead(v, p, c)
             Commits == \E v \in VerifyCalls : VerifyPaymentCommit(v)
             Fails == \E v \in VerifyCalls : VerifyPaymentFails(v)
  <1>1. verifying \in [VerifyCalls -> VerifyCall \cup {NoCall}] /\ CallsFit
    BY DEF PaymentsInv, PayTypeOK
  <1> DEFINE Kept ==
        /\ verifying' \in [VerifyCalls -> VerifyCall \cup {NoCall}]
        /\ \A w \in VerifyCalls : verifying'[w] \in {NoCall, verifying[w]} \/ Captured(verifying'[w].pay)
        /\ UNCHANGED <<checkout, attempt, owed, recorded, running, dropped>>
  <1>2. Kept
    <2>1. ASSUME NEW v \in VerifyCalls, NEW p \in PayIds, NEW c \in Customers, VerifyPaymentRead(v, p, c)
          PROVE  Kept
      <3>1. PICK new \in VerifyCall : new = [pay |-> p, who |-> c]
        BY DEF VerifyCall
      <3>2. verifying' = [verifying EXCEPT ![v] = new] /\ new.pay = p /\ Captured(p)
        BY <2>1, <3>1 DEF VerifyPaymentRead, Captured
      <3> QED BY <2>1, <3>2, <1>1 DEF VerifyPaymentRead
    <2>2. ASSUME NEW v \in VerifyCalls, VerifyPaymentCommit(v) \/ VerifyPaymentFails(v)
          PROVE  Kept
      BY <2>2, <1>1 DEF VerifyPaymentCommit, VerifyPaymentFails
    <2> QED BY <2>1, <2>2 DEF VerifyPayment
  <1>3. CallsFit' /\ CapturedOnce'
    BY <1>2, CallStep
  <1>4. CASE Read \/ Fails
    <2>1. UNCHANGED <<row, bookings, order>>
      BY <1>4 DEF VerifyPaymentRead, VerifyPaymentFails
    <2>2. OrdersFit' /\ PaymentsFit' /\ BookingsFit' /\ PaidOrderHasBooking'
      BY <1>2, <2>1, OrderStep DEF PaymentsInv, OrdersFit, PayTypeOK, Placed
    <2>3. EventsTracked'
      BY <1>2, <2>1, TrackStep DEF HasBooking, PaymentsInv, EventsTracked
    <2>4. PayTypeOK' /\ RowsFit' /\ BookedSeatIsListed'
      BY <1>2, <2>1 DEF PaymentsInv, PayTypeOK, RowsFit, BookedSeatIsListed
    <2> QED BY <1>3, <2>2, <2>3, <2>4 DEF PaymentsInv
  <1>5. ASSUME NEW v \in VerifyCalls, VerifyPaymentCommit(v) PROVE PaymentsInv'
    <2>1. PICK p \in PayIds, c \in Customers : p = verifying[v].pay /\ c = verifying[v].who /\ Captured(p)
      BY <1>5, <1>1 DEF VerifyPaymentCommit, CallsFit, VerifyCall
    <2>2. PICK o \in OrderIds : o = OrderOf(p)
      BY <2>1 DEF PaymentsInv, PaymentsFit, Captured
    <2>3. row' = With(SeatsToVerify(o, c), BookedRow(c)) /\ InsertBooking(o, p, c) /\ MarkPaid(o, p)
      BY <1>5, <2>1, <2>2 DEF VerifyPaymentCommit
    <2>4. row' \in [Seats -> SeatRow]
      BY <2>2, <2>3, RowTypes DEF With, PaymentsInv, PayTypeOK
    <2>5. \A s \in Seats : row'[s] # row[s] => s \in order[o].seats /\ row'[s] = BookedRow(c)
      BY <2>3 DEF With, SeatsToVerify
    <2>6. /\ order' \in [OrderIds -> OrderRow] /\ bookings' \in Seq(PaymentBooking)
          /\ RowsFit' /\ OrdersFit' /\ PaymentsFit' /\ CapturedOnce' /\ BookingsFit'
          /\ PaidOrderHasBooking' /\ BookedSeatIsListed'
          /\ \A q \in PayIds : HasBooking(q) => HasBooking(q)'
      BY <1>2, <2>1, <2>2, <2>3, <2>4, <2>5, BookStep
    <2>7. EventsTracked'
      BY <1>2, <2>6, TrackStep DEF PaymentsInv, EventsTracked
    <2>8. PayTypeOK'
      BY <1>2, <2>4, <2>6 DEF PaymentsInv, PayTypeOK
    <2> QED BY <1>3, <2>6, <2>7, <2>8 DEF PaymentsInv
  <1> QED BY <1>4, <1>5 DEF VerifyPayment

LEMMA DeliverStep ==
  ASSUME PaymentsInv, NEW e \in Event, Deliver(e) \/ HandlerFails(e)
  PROVE  PaymentsInv'
  <1> USE DEF gatewayVars, serverVars
  <1>1. UNCHANGED <<row, bookings, order, checkout, attempt, verifying>>
    BY DEF Deliver, DeliverNew, DeliverDuplicate, DeliverUnrecorded, HandlerFails
  <1>2. /\ PayTypeOK /\ running \ recorded \subseteq owed
        /\ owed \subseteq Event /\ recorded \subseteq Event /\ running \subseteq Event /\ dropped \subseteq recorded
    BY DEF PaymentsInv, PayTypeOK, EventsTracked
  <1>3. /\ owed' \subseteq Event /\ recorded' \subseteq Event /\ running' \subseteq Event
        /\ dropped' \subseteq recorded' /\ running' \ recorded' \subseteq owed'
        /\ owed' \cup recorded' \cup running' \subseteq owed \cup recorded \cup running
        /\ (owed \ recorded) \cup running \cup dropped \subseteq (owed' \ recorded') \cup running' \cup dropped'
    <2>1. CASE DeliverNew(e)
      BY <2>1, <1>2 DEF DeliverNew
    <2>2. CASE DeliverDuplicate(e)
      BY <2>2, <1>2 DEF DeliverDuplicate
    <2>3. CASE DeliverUnrecorded(e)
      BY <2>3, <1>2 DEF DeliverUnrecorded
    <2>4. CASE HandlerFails(e)
      BY <2>4, <1>2 DEF HandlerFails
    <2> QED BY <2>1, <2>2, <2>3, <2>4 DEF Deliver
  <1>4. CallsFit' /\ CapturedOnce'
    BY <1>1, <1>3, CallStep
  <1>5. OrdersFit' /\ PaymentsFit' /\ BookingsFit' /\ PaidOrderHasBooking'
    BY <1>1, <1>2, OrderStep DEF PaymentsInv, OrdersFit, PayTypeOK, Placed
  <1>6. EventsTracked'
    BY <1>1, <1>3, TrackStep DEF HasBooking
  <1>7. PayTypeOK' /\ RowsFit' /\ BookedSeatIsListed'
    BY <1>1, <1>2, <1>3 DEF PaymentsInv, PayTypeOK, RowsFit, BookedSeatIsListed
  <1> QED BY <1>4, <1>5, <1>6, <1>7 DEF PaymentsInv

(* The handler of a failed payment frees seats that are only held.         *)
LEMMA FailedStep ==
  ASSUME PaymentsInv, NEW o \in OrderIds, Placed(o), HandlePaymentFailed(o), UNCHANGED <<checkout, attempt>>
  PROVE  /\ row' \in [Seats -> SeatRow] /\ order' \in [OrderIds -> OrderRow] /\ UNCHANGED bookings
         /\ RowsFit' /\ OrdersFit' /\ PaymentsFit' /\ BookingsFit' /\ PaidOrderHasBooking'
         /\ BookedSeatIsListed'
  <1>1. /\ row \in [Seats -> SeatRow] /\ order \in [OrderIds -> OrderRow] /\ RowsFit
        /\ order[o].who \in Customers
    BY DEF PaymentsInv, PayTypeOK, OrdersFit, Placed
  <1>2. row' = With(SeatsToCapture(o), NoRow) /\ UNCHANGED bookings
        /\ order' = [order EXCEPT ![o].status = "failed"]
    BY DEF HandlePaymentFailed
  <1>3. row' \in [Seats -> SeatRow]
    BY <1>1, <1>2, RowTypes DEF With
  <1>4. \A s \in Seats : row'[s] = row[s] \/ row'[s] = NoRow
    BY <1>2 DEF With
  <1>5. NoRow.status = "ABSENT" /\ ~NoRow.lapsed /\ NoRow.by = NoCustomer
    BY DEF NoRow
  <1>6. RowsFit'
    BY <1>1, <1>4, <1>5 DEF RowsFit
  <1>7. BookedSeatIsListed'
    BY <1>2, <1>4, <1>5 DEF PaymentsInv, BookedSeatIsListed
  <1>8. order' \in [OrderIds -> OrderRow]
    BY <1>1, <1>2, OrderRows
  <1>9. /\ order'[o].status = "failed" /\ order'[o].who = order[o].who /\ order'[o].seats = order[o].seats
        /\ \A x \in OrderIds \ {o} : order'[x] = order[x]
    BY <1>1, <1>2 DEF OrderRow
  <1>10. OrdersFit' /\ PaymentsFit' /\ BookingsFit' /\ PaidOrderHasBooking'
    <2>1. \A x \in OrderIds : Placed(x) => /\ Placed(x)' /\ order'[x].who = order[x].who
                                          /\ order'[x].seats = order[x].seats
      BY <1>9 DEF Placed
    <2>2. \A x \in OrderIds : order'[x].status # "none" => order'[x].who \in Customers
      BY <1>1, <1>9 DEF PaymentsInv, OrdersFit
    <2>3. \A x \in OrderIds : order'[x].status = "paid" => order[x].status = "paid" /\ order'[x].pay = order[x].pay
      BY <1>9
    <2>4. checkout' \in [Customers -> OrderIds \cup {NoOrder}]
      BY DEF PaymentsInv, PayTypeOK
    <2> QED BY <1>2, <1>8, <2>1, <2>2, <2>3, <2>4, OrderStep
  <1> QED BY <1>2, <1>3, <1>6, <1>7, <1>8, <1>10

(* The handler of a capture books the payment, or it is booked.            *)
LEMMA CapturedStep ==
  ASSUME PaymentsInv, NEW p \in PayIds, Captured(p), HandlePaymentCaptured(OrderOf(p), p),
         UNCHANGED <<checkout, attempt>>
  PROVE  /\ row' \in [Seats -> SeatRow] /\ order' \in [OrderIds -> OrderRow] /\ bookings' \in Seq(PaymentBooking)
         /\ RowsFit' /\ OrdersFit' /\ PaymentsFit' /\ BookingsFit' /\ PaidOrderHasBooking'
         /\ BookedSeatIsListed'
         /\ HasBooking(p)' /\ \A q \in PayIds : HasBooking(q) => HasBooking(q)'
  <1> DEFINE o == OrderOf(p)
  <1>0. row \in [Seats -> SeatRow] /\ RowsFit
    BY DEF PaymentsInv, PayTypeOK
  <1>1. CASE order[o].status = "paid"
    <2>1. UNCHANGED <<row, bookings, order>>
      BY <1>1 DEF HandlePaymentCaptured
    <2>2. OrdersFit' /\ PaymentsFit' /\ BookingsFit' /\ PaidOrderHasBooking'
      BY <2>1, OrderStep DEF PaymentsInv, OrdersFit, PayTypeOK, Placed
    <2>3. HasBooking(p)' /\ \A q \in PayIds : HasBooking(q) => HasBooking(q)'
      BY <1>1, <2>1, PaidOrderIsBooked DEF HasBooking
    <2> QED BY <2>1, <2>2, <2>3 DEF PaymentsInv, PayTypeOK, RowsFit, BookedSeatIsListed
  <1>2. CASE order[o].status # "paid"
    <2>1. /\ row' = [s \in Seats |-> IF s \in SeatsToCapture(o) THEN BookedRow(row[s].by) ELSE row[s]]
          /\ InsertBooking(o, p, order[o].who) /\ MarkPaid(o, p)
      BY <1>2 DEF HandlePaymentCaptured
    <2>0. order[o].who \in Customers
      BY DEF PaymentsInv, PaymentsFit, OrdersFit, Captured, Placed
    <2>2. \A s \in Seats : s \in SeatsToCapture(o) => row[s].by \in Customers /\ s \in order[o].seats
      BY <1>0 DEF SeatsToCapture, RowsFit, SeatRow
    <2>3. row' \in [Seats -> SeatRow]
      BY <1>0, <2>1, <2>2, RowTypes
    <2>4. \A s \in Seats : row'[s] # row[s] => s \in order[o].seats /\ \E c \in Customers : row'[s] = BookedRow(c)
      BY <2>1, <2>2
    <2> QED BY <2>0, <2>1, <2>3, <2>4, BookStep
  <1> QED BY <1>1, <1>2

LEMMA RunHandlerStep ==
  ASSUME PaymentsInv, NEW e \in Event, RunHandler(e)
  PROVE  PaymentsInv'
  <1>1. /\ e \in running /\ Handle(e) /\ running' = running \ {e}
        /\ owed' \in {owed, owed \ {e}}
        /\ UNCHANGED <<checkout, attempt, verifying, recorded, dropped>>
    BY DEF RunHandler
  <1>2. e.pay \in PayIds /\ Tells(e)
    BY <1>1 DEF Event, PaymentsInv, CallsFit
  <1>3. /\ row' \in [Seats -> SeatRow] /\ order' \in [OrderIds -> OrderRow] /\ bookings' \in Seq(PaymentBooking)
        /\ RowsFit' /\ OrdersFit' /\ PaymentsFit' /\ BookingsFit' /\ PaidOrderHasBooking'
        /\ BookedSeatIsListed'
        /\ e.kind = "payment.failed" \/ HasBooking(e.pay)'
        /\ \A q \in PayIds : HasBooking(q) => HasBooking(q)'
    <2>1. CASE e.kind = "payment.failed"
      <3>1. OrderOf(e.pay) \in OrderIds /\ Placed(OrderOf(e.pay)) /\ HandlePaymentFailed(OrderOf(e.pay))
        BY <2>1, <1>1, <1>2 DEF Tells, Handle, PaymentsInv, PaymentsFit
      <3>2. bookings \in Seq(PaymentBooking)
        BY DEF PaymentsInv, PayTypeOK
      <3> QED BY <2>1, <3>1, <3>2, <1>1, FailedStep DEF HasBooking
    <2>2. CASE e.kind # "payment.failed"
      <3>1. Captured(e.pay) /\ HandlePaymentCaptured(OrderOf(e.pay), e.pay)
        BY <2>2, <1>1, <1>2 DEF Tells, Handle
      <3> QED BY <3>1, <1>1, <1>2, CapturedStep
    <2> QED BY <2>1, <2>2
  <1>4. CallsFit' /\ CapturedOnce'
    BY <1>1, CallStep
  <1>5. running' \ recorded' \subseteq owed'
    BY <1>1 DEF PaymentsInv, EventsTracked
  <1>6. EventsTracked'
    BY <1>1, <1>3, <1>5, TrackStep
  <1>7. PayTypeOK'
    BY <1>1, <1>3 DEF PaymentsInv, PayTypeOK
  <1> QED BY <1>3, <1>4, <1>6, <1>7 DEF PaymentsInv

LEMMA PayStepInv == PaymentsInv /\ [PayNext]_payVars => PaymentsInv'
  <1> SUFFICES ASSUME PaymentsInv, [PayNext]_payVars PROVE PaymentsInv'
    OBVIOUS
  <1>1. CASE UNCHANGED payVars
    <2> USE <1>1 DEF payVars
    <2>1. OrdersFit' /\ PaymentsFit' /\ BookingsFit' /\ PaidOrderHasBooking'
      BY OrderStep DEF PaymentsInv, OrdersFit, PayTypeOK, Placed
    <2>2. CallsFit' /\ CapturedOnce'
      BY CallStep
    <2>3. EventsTracked'
      BY TrackStep DEF HasBooking, PaymentsInv, EventsTracked
    <2>4. PayTypeOK' /\ RowsFit' /\ BookedSeatIsListed'
      BY DEF PaymentsInv, PayTypeOK, RowsFit, BookedSeatIsListed
    <2> QED BY <2>1, <2>2, <2>3, <2>4 DEF PaymentsInv
  <1>2. CASE Seating
    BY <1>2, SeatingStep
  <1>3. CASE CreateOrder
    BY <1>3, CreateOrderStep
  <1>4. CASE Pay
    BY <1>4, AttemptStep DEF Pay
  <1>5. CASE VerifyPayment
    BY <1>5, VerifyPaymentStep
  <1>6. CASE HandleWebhook
    BY <1>6, DeliverStep, RunHandlerStep DEF HandleWebhook
  <1> QED BY <1>1, <1>2, <1>3, <1>4, <1>5, <1>6 DEF PayNext

-----------------------------------------------------------------------------
(* The invariant of every behaviour of the payment flow.                   *)
LEMMA PaymentsInvariant == PaySpec => []PaymentsInv
  BY PayInitInv, PayStepInv, PTL DEF PaySpec

(* The type invariant of the tables, the gateway and the webhook.          *)
THEOREM PayTypeCorrect == PaySpec => []PayTypeOK
  <1>1. PaymentsInv => PayTypeOK
    BY DEF PaymentsInv
  <1> QED BY <1>1, PaymentsInvariant, PTL

(* However verify calls, retries and the two webhooks of a capture race,   *)
(* an order gives at most one booking, and for a captured payment only.    *)
THEOREM OrderIsBookedOnce == PaySpec => []OneBookingPerOrder
  <1>1. ASSUME PaymentsInv PROVE OneBookingPerOrder
    <2>1. ASSUME NEW i \in DOMAIN bookings, bookings[i].pay # NoPayment
          PROVE  bookings[i].pay \in PayIds /\ Captured(bookings[i].pay)
      BY <1>1, <2>1, PaidBookingFits
    <2>2. ASSUME NEW i \in DOMAIN bookings, NEW j \in DOMAIN bookings, i # j,
                 bookings[i].pay # NoPayment, bookings[j].pay # NoPayment,
                 OrderOf(bookings[i].pay) = OrderOf(bookings[j].pay)
          PROVE  FALSE
      <3>1. bookings[i].pay = bookings[j].pay
        BY <1>1, <2>1, <2>2 DEF PaymentsInv, CapturedOnce
      <3> QED BY <1>1, <2>2, <3>1 DEF PaymentsInv, BookingsFit
    <2> QED BY <2>1, <2>2 DEF OneBookingPerOrder, Captured
  <1> QED BY <1>1, PaymentsInvariant, PTL

(* A paid order always has the booking it was paid for.                    *)
THEOREM PaidOrderIsOnRecord == PaySpec => []PaidOrderHasBooking
  <1>1. PaymentsInv => PaidOrderHasBooking
    BY DEF PaymentsInv
  <1> QED BY <1>1, PaymentsInvariant, PTL

(* No path of the payment flow or of the seat endpoints marks a seat sold  *)
(* that no booking lists.                                                  *)
THEOREM SoldSeatIsListed == PaySpec => []BookedSeatIsListed
  <1>1. PaymentsInv => BookedSeatIsListed
    BY DEF PaymentsInv
  <1> QED BY <1>1, PaymentsInvariant, PTL

(* A captured payment is booked, or reported by an event on its way or     *)
(* being handled, or all its events were recorded and lost to a handler    *)
(* that failed.                                                            *)
THEOREM CapturedPaymentIsTracked == PaySpec => []CaptureIsTracked
  <1>1. PaymentsInv => CaptureIsTracked
    <2> SUFFICES ASSUME PaymentsInv, NEW p \in PayIds, Captured(p), ~HasBooking(p),
                        EventsOf(p, "captured") \cap ((owed \ recorded) \cup running) = {}
                 PROVE  EventsOf(p, "captured") \subseteq dropped
      BY DEF CaptureIsTracked, Captured
    <2>1. EventsOf(p, "captured") \subseteq (owed \ recorded) \cup running \cup dropped
      BY DEF PaymentsInv, EventsTracked
    <2> QED BY <2>1
  <1> QED BY <1>1, PaymentsInvariant, PTL

(* Nobody can lose a booked seat to a payment either: verifyPayment writes *)
(* only rows its caller holds, the webhooks only rows that are HELD.    *)
THEOREM PaymentsBookedIsFinal == PaySpec => BookedIsFinal
  <1> DEFINE Kept == \A s \in Seats : row[s].status = "BOOKED" => row'[s] = row[s]
  <1>1. PaymentsInv /\ [PayNext]_payVars => [Kept]_ledgerVars
    <2> SUFFICES ASSUME PaymentsInv, PayNext PROVE Kept \/ UNCHANGED ledgerVars
      BY DEF payVars, ledgerVars
    <2>1. /\ row \in [Seats -> SeatRow] /\ RowsFit
      BY DEF PaymentsInv, PayTypeOK
    <2>2. CASE Seating
      BY <2>1, <2>2 DEF Seating, LedgerNext, HoldSeats, ConfirmBooking, ReleaseSeats, CleanupExpiredHolds,
                        Lapse, Takeable, HeldBy, With
    <2>3. CASE CreateOrder
      BY <2>3 DEF CreateOrder, CreateOrderExisting, CreateOrderCheck, CreateOrderInsert, CreateOrderFails,
                  OrderAges, ledgerVars
    <2>4. CASE Pay
      BY <2>4 DEF Pay, Attempt, ledgerVars
    <2>5. ASSUME NEW v \in VerifyCalls, VerifyPaymentCommit(v) PROVE Kept
      <3>1. PICK o, c : row' = With(SeatsToVerify(o, c), BookedRow(c))
        BY <2>5 DEF VerifyPaymentCommit
      <3>2. \A s \in Seats : row'[s] # row[s] => row[s].by = c /\ row'[s] = BookedRow(c)
        BY <3>1 DEF With, SeatsToVerify
      <3>3. ASSUME NEW s \in Seats, row[s].status = "BOOKED" PROVE row[s] = BookedRow(row[s].by)
        <4>1. row[s] \in SeatRow /\ ~row[s].lapsed
          BY <2>1, <3>3 DEF RowsFit
        <4> QED BY <3>3, <4>1 DEF SeatRow, BookedRow
      <3> QED BY <3>2, <3>3
    <2>6. CASE VerifyPayment
      BY <2>5, <2>6 DEF VerifyPayment, VerifyPaymentRead, VerifyPaymentFails, ledgerVars
    <2>7. ASSUME NEW e \in Event, RunHandler(e) PROVE Kept
      <3>1. CASE e.kind = "payment.failed"
        BY <2>1, <2>7, <3>1 DEF RunHandler, Handle, HandlePaymentFailed, With, SeatsToCapture
      <3>2. CASE e.kind # "payment.failed"
        BY <2>1, <2>7, <3>2 DEF RunHandler, Handle, HandlePaymentCaptured, SeatsToCapture
      <3> QED BY <3>1, <3>2
    <2>8. CASE HandleWebhook
      BY <2>7, <2>8 DEF HandleWebhook, Deliver, DeliverNew, DeliverDuplicate, DeliverUnrecorded, HandlerFails,
                        ledgerVars
    <2> QED BY <2>2, <2>3, <2>4, <2>6, <2>8 DEF PayNext
  <1> QED BY <1>1, PaymentsInvariant, PTL DEF PaySpec, BookedIsFinal
=============================================================================
