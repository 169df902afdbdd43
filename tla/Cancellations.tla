---------------------------- MODULE Cancellations ----------------------------
(***************************************************************************)
(* Cancelling a show and giving the money back: the status of one show     *)
(* (shows.Controller.js), the paid and unpaid bookings on it, the rows of  *)
(* refunds, and Razorpay's refunds, which end in webhooks.                 *)
(*                                                                         *)
(* cancelShow is a transaction followed by one Razorpay call and one       *)
(* UPDATE per booking, outside the transaction; the other endpoints read   *)
(* the status and then write it.  Each statement is a step, so admins, the *)
(* status timer, customers who book, and webhooks come in between.         *)
(***************************************************************************)
EXTENDS Naturals, Sequences, FiniteSets

CONSTANTS Admins,       \* requests of admins that run at the same time
          Paid,         \* bookings with a payment (payment_status 'completed')
          Unpaid,       \* bookings without one, as confirmBooking makes them
          NoAdmin, NoBooking

ASSUME CancellationsAssumption == /\ NoAdmin \notin Admins
                                  /\ NoBooking \notin Paid
                                  /\ Paid \cap Unpaid = {}

VARIABLES
  show,         \* shows.status
  phase,        \* the clock against start_time and end_time
  booking,      \* bookings.booking_status ("none": no row)
  refunds,      \* booking -> its rows of refunds, oldest first
  locked,       \* the request whose transaction has updated the shows row
  request,      \* admin -> the request under way
  gateway,      \* booking -> Razorpay's refund of its payment
  owed,         \* refund webhooks Razorpay has yet to see acknowledged
  byHand,       \* history: bookings whose refund an admin settled by hand
  mishaps,      \* history: bookings whose refund met an accident (see below)
  between       \* history: bookings made between a cancellation's SELECT and UPDATE

serverVars == <<booking, refunds, request>>
gatewayVars == <<gateway, owed>>
historyVars == <<byHand, mishaps, between>>
vars == <<show, phase, booking, refunds, locked, request, gateway, owed, byHand, mishaps,
          between>>

-----------------------------------------------------------------------------
Bookings == Paid \cup Unpaid
ShowStatuses == {"scheduled", "booking_started", "in_progress", "show_ended", "cancelled"}
RefundRow == [status : {"initiated", "settled", "failed"}, id : BOOLEAN]
RefundEvent == [kind : {"refund.processed", "refund.failed"}, booking : Paid]

Idle == [op |-> "idle", step |-> "read", todo |-> {}, target |-> NoBooking]

Request == [op : {"idle", "cancel", "open", "revert", "restore", "settle"},
            step : {"read", "update", "select", "commit", "refund", "store", "fail", "count", "write"},
            todo : SUBSET Paid, target : Paid \cup {NoBooking}]

At(a, op, step) == request[a].op = op /\ request[a].step = step
Goto(a, step) == request' = [request EXCEPT ![a].step = step]
Start(a, op, step) == /\ request[a] = Idle
                      /\ request' = [request EXCEPT ![a] = [Idle EXCEPT !.op = op, !.step = step]]
Finish(a) == request' = [request EXCEPT ![a] = Idle]

(* A write of the shows row waits for a transaction that has updated it. *)
RowFree == locked = NoAdmin

Confirmed == {b \in Bookings : booking[b] = "confirmed"}

Init == /\ show = "scheduled"
        /\ phase = "before"
        /\ booking = [b \in Bookings |-> "none"]
        /\ refunds = [b \in Paid |-> << >>]
        /\ locked = NoAdmin
        /\ request = [a \in Admins |-> Idle]
        /\ gateway = [b \in Paid |-> "none"]
        /\ owed = {} /\ byHand = {} /\ mishaps = {} /\ between = {}

-----------------------------------------------------------------------------
(* cancelShow, and bulkCancelShows for each of its ids: BEGIN, the status  *)
(* check, the UPDATE of the show, the SELECT of its paid bookings, their   *)
(* UPDATE and the INSERTs into refunds, COMMIT.                            *)

CancelShowRead(a) ==
  /\ show \notin {"cancelled", "show_ended"}
  /\ Start(a, "cancel", "update")
  /\ UNCHANGED <<show, phase, booking, refunds, locked, gatewayVars, historyVars>>

(* A mistake RefundedOnce catches: the transactions of two admins overlap. *)
CancelShowUpdateNoWait(a) ==
  /\ At(a, "cancel", "update")
  /\ locked' = a
  /\ Goto(a, "select")
  /\ UNCHANGED <<show, phase, booking, refunds, gatewayVars, historyVars>>

CancelShowUpdate(a) ==
  /\ At(a, "cancel", "update")
  /\ RowFree
  /\ locked' = a
  /\ Goto(a, "select")
  /\ UNCHANGED <<show, phase, booking, refunds, gatewayVars, historyVars>>

(* payment_status = 'completed' AND booking_status != 'cancelled' *)
CancelShowSelect(a) ==
  /\ At(a, "cancel", "select")
  /\ request' = [request EXCEPT ![a].step = "commit", ![a].todo = Paid \cap Confirmed]
  /\ UNCHANGED <<show, phase, booking, refunds, locked, gatewayVars, historyVars>>

(* A mistake RefundRowsAreCancelled catches: the bookings stay confirmed. *)
CancelledBookingsNone(a) == booking

(* The UPDATE has the WHERE clause of the SELECT, not its result, and is   *)
(* skipped when the result was empty.                                      *)
CancelledBookings(a) ==
  IF request[a].todo = {} THEN booking
  ELSE [b \in Bookings |-> IF b \in Paid \cap Confirmed THEN "cancelled" ELSE booking[b]]

(* A mistake CancelledHasRefundRow catches: a show that was not open is    *)
(* taken to have no bookings.                                              *)
NewRefundsIfOpen(a) == IF show = "scheduled" THEN {} ELSE request[a].todo

NewRefunds(a) == request[a].todo

CancelShowCommit(a) ==
  /\ At(a, "cancel", "commit")
  /\ show' = "cancelled"
  /\ booking' = CancelledBookings(a)
  /\ refunds' = [b \in Paid |->
       IF b \in NewRefunds(a) THEN Append(refunds[b], [status |-> "initiated", id |-> FALSE])
                              ELSE refunds[b]]
  /\ locked' = NoAdmin
  /\ Goto(a, "refund")
  /\ UNCHANGED <<phase, gatewayVars, historyVars>>

(* ROLLBACK: a statement failed, or the process died. *)
CancelShowRollback(a) ==
  /\ request[a].op = "cancel" /\ request[a].step \in {"update", "select", "commit"}
  /\ locked' = IF locked = a THEN NoAdmin ELSE locked
  /\ Finish(a)
  /\ UNCHANGED <<show, phase, booking, refunds, gatewayVars, historyVars>>

(* razorpay.payments.refund: accepted, and then the answer may be lost, or *)
(* refused, as a second refund of a payment always is.                     *)
RefundCall(a, b) ==
  /\ At(a, "cancel", "refund") /\ b \in request[a].todo
  /\ \E step \in {"store", "fail"} :
       /\ request' = [request EXCEPT ![a].step = step, ![a].target = b, ![a].todo = @ \ {b}]
       /\ \/ gateway[b] = "none" /\ gateway' = [gateway EXCEPT ![b] = "pending"]
          \/ step = "fail" /\ gateway' = gateway
  /\ UNCHANGED <<show, phase, booking, refunds, locked, owed, historyVars>>

(* A mistake SettledIsPaidBack catches: accepted is taken for settled. *)
StoreIdAsSettled(b) ==
  refunds' = [refunds EXCEPT ![b] = [i \in DOMAIN @ |-> [status |-> "settled", id |-> TRUE]]]

StoreId(b) == refunds' = [refunds EXCEPT ![b] = [i \in DOMAIN @ |-> [@[i] EXCEPT !.id = TRUE]]]

RefundStoreId(a) ==
  /\ At(a, "cancel", "store")
  /\ StoreId(request[a].target)
  /\ Goto(a, "refund")
  /\ UNCHANGED <<show, phase, booking, locked, gatewayVars, historyVars>>

(* The UPDATE that stores the id fails, inside the try that called         *)
(* Razorpay: its catch runs.                                               *)
RefundStoreThrows(a) ==
  /\ At(a, "cancel", "store")
  /\ Goto(a, "fail")
  /\ UNCHANGED <<show, phase, booking, refunds, locked, gatewayVars, historyVars>>

(* A mistake InitiatedEnds catches: the catch only logs. *)
SetStatusNever(b, status) == UNCHANGED refunds

SetStatus(b, status) ==
  refunds' = [refunds EXCEPT ![b] = [i \in DOMAIN @ |-> [@[i] EXCEPT !.status = status]]]

RefundMarkFailed(a) ==
  /\ At(a, "cancel", "fail")
  /\ SetStatus(request[a].target, "failed")
  /\ Goto(a, "refund")
  /\ UNCHANGED <<show, phase, booking, locked, gatewayVars, historyVars>>

(* The process dies, or a query after COMMIT throws to the outer catch:    *)
(* the refunds still to do are never asked for.                            *)
CancelShowAbandon(a) ==
  /\ request[a].op = "cancel" /\ request[a].step \in {"refund", "store", "fail"}
  /\ mishaps' = mishaps \cup request[a].todo
                  \cup (IF request[a].step = "refund" THEN {} ELSE {request[a].target})
  /\ Finish(a)
  /\ UNCHANGED <<show, phase, booking, refunds, locked, gatewayVars, byHand, between>>

CancelShowEnd(a) ==
  /\ At(a, "cancel", "refund") /\ request[a].todo = {}
  /\ Finish(a)
  /\ UNCHANGED <<show, phase, booking, refunds, locked, gatewayVars, historyVars>>

-----------------------------------------------------------------------------
(* updateShowBookingStatus, bulkOpenBooking, bulkRestoreShows: the status  *)
(* is read, and then written whatever it has become.                       *)

OpenRead(a) == show = "scheduled" /\ Start(a, "open", "write")
RevertRead(a) == show = "booking_started" /\ Start(a, "revert", "count")
RestoreRead(a) == show = "cancelled" /\ Start(a, "restore", "write")

RevertCount(a) ==
  /\ At(a, "revert", "count")
  /\ IF Confirmed = {} THEN Goto(a, "write") ELSE Finish(a)

ShowWrite(a) ==
  /\ request[a].op \in {"open", "revert", "restore"} /\ request[a].step = "write"
  /\ RowFree
  /\ show' = IF request[a].op = "open" THEN "booking_started" ELSE "scheduled"
  /\ Finish(a)

UpdateShowBookingStatus(a) ==
  /\ \/ /\ OpenRead(a) \/ RevertRead(a) \/ RevertCount(a) \/ RestoreRead(a)
        /\ UNCHANGED show
     \/ ShowWrite(a)
  /\ UNCHANGED <<phase, booking, refunds, locked, gatewayVars, historyVars>>

(* manuallySettleRefund *)
SettleRead(a, b) ==
  /\ \E i \in DOMAIN refunds[b] : refunds[b][i].status # "settled"
  /\ request[a] = Idle
  /\ request' = [request EXCEPT ![a] = [Idle EXCEPT !.op = "settle", !.step = "write", !.target = b]]
  /\ UNCHANGED <<show, phase, booking, refunds, locked, gatewayVars, historyVars>>

SettleWrite(a) ==
  /\ At(a, "settle", "write")
  /\ SetStatus(request[a].target, "settled")
  /\ byHand' = byHand \cup {request[a].target}
  /\ Finish(a)
  /\ UNCHANGED <<show, phase, booking, locked, gatewayVars, mishaps, between>>

(* A query of one of these fails: a 500, and nothing written. *)
RequestFails(a) ==
  /\ request[a].op \notin {"idle", "cancel"}
  /\ Finish(a)
  /\ UNCHANGED <<show, phase, booking, refunds, locked, gatewayVars, historyVars>>

-----------------------------------------------------------------------------
(* The clock, and updateShowStatuses, one UPDATE at a time. *)

TimePasses ==
  /\ phase # "after"
  /\ phase' = IF phase = "before" THEN "during" ELSE "after"
  /\ UNCHANGED <<show, serverVars, locked, gatewayVars, historyVars>>

UpdateShowStatuses ==
  /\ RowFree
  /\ \/ show = "booking_started" /\ phase = "during" /\ show' = "in_progress"
     \/ /\ show \in {"in_progress", "booking_started", "scheduled"} /\ phase = "after"
        /\ show' = "show_ended"
  /\ UNCHANGED <<phase, serverVars, locked, gatewayVars, historyVars>>

(* A booking is made.  None of holdSeats, createOrder, verifyPayment,      *)
(* handlePaymentCaptured and confirmBooking asks for the show's status.    *)
Book(b) ==
  /\ booking[b] = "none"
  /\ booking' = [booking EXCEPT ![b] = "confirmed"]
  /\ between' = IF b \in Paid /\ \E a \in Admins : At(a, "cancel", "commit")
                THEN between \cup {b} ELSE between
  /\ UNCHANGED <<show, phase, refunds, request, locked, gatewayVars, byHand, mishaps>>

-----------------------------------------------------------------------------
(* Razorpay ends a refund, and tells the webhook. *)

GatewayEnds(b) ==
  /\ gateway[b] = "pending"
  /\ \E result \in {"processed", "failed"} :
       /\ gateway' = [gateway EXCEPT ![b] = result]
       /\ owed' = owed \cup {[kind |-> IF result = "processed" THEN "refund.processed"
                                                               ELSE "refund.failed",
                              booking |-> b]}
  /\ UNCHANGED <<show, phase, serverVars, locked, historyVars>>

KnownId(b) == \E i \in DOMAIN refunds[b] : refunds[b][i].id

(* The UPDATE ... WHERE razorpay_refund_id finds no row while the id is    *)
(* not stored.  The event comes again only if its deduplication row could  *)
(* not be inserted and the answer was lost.                                *)
RefundWebhook(e) ==
  /\ e \in owed
  /\ IF KnownId(e.booking)
     THEN SetStatus(e.booking, IF e.kind = "refund.processed" THEN "settled" ELSE "failed")
     ELSE UNCHANGED refunds
  /\ \/ UNCHANGED <<owed, mishaps>>
     \/ /\ owed' = owed \ {e}
        /\ mishaps' = IF KnownId(e.booking) THEN mishaps ELSE mishaps \cup {e.booking}
  /\ UNCHANGED <<show, phase, booking, request, locked, gateway, byHand, between>>

(* The event is recorded, then the UPDATE throws: the retry is a duplicate. *)
RefundWebhookLost(e) ==
  /\ e \in owed
  /\ owed' = owed \ {e}
  /\ mishaps' = mishaps \cup {e.booking}
  /\ UNCHANGED <<show, phase, serverVars, locked, gateway, byHand, between>>

-----------------------------------------------------------------------------
(* One run of cancelShow, or of bulkCancelShows for one of its ids. *)
CancelShow(a) ==
  \/ CancelShowRead(a) \/ CancelShowUpdate(a) \/ CancelShowSelect(a) \/ CancelShowCommit(a)
  \/ CancelShowRollback(a) \/ CancelShowAbandon(a)
  \/ \E b \in Paid : RefundCall(a, b)
  \/ RefundStoreId(a) \/ RefundStoreThrows(a) \/ RefundMarkFailed(a) \/ CancelShowEnd(a)

ManuallySettleRefund(a) == SettleWrite(a) \/ \E b \in Paid : SettleRead(a, b)

Next == \/ \E a \in Admins : \/ CancelShow(a) \/ UpdateShowBookingStatus(a)
                             \/ ManuallySettleRefund(a) \/ RequestFails(a)
        \/ TimePasses \/ UpdateShowStatuses
        \/ \E b \in Bookings : Book(b)
        \/ \E b \in Paid : GatewayEnds(b)
        \/ \E e \in RefundEvent : RefundWebhook(e) \/ RefundWebhookLost(e)

Spec == Init /\ [][Next]_vars

(* A cancellation that has begun goes on (or is abandoned), Razorpay ends  *)
(* every refund it accepted, and delivers its events.                      *)
Fairness == /\ \A a \in Admins : WF_vars(request[a].op = "cancel" /\ CancelShow(a))
            /\ \A b \in Paid : WF_vars(GatewayEnds(b))
            /\ \A e \in RefundEvent : WF_vars(RefundWebhook(e))

FairSpec == Spec /\ Fairness

-----------------------------------------------------------------------------
(* The variables keep their types; unpaid bookings are never cancelled,    *)
(* and only the transaction of a cancelShow locks the show.                *)
TypeOK == /\ show \in ShowStatuses
          /\ phase \in {"before", "during", "after"}
          /\ booking \in [Bookings -> {"none", "confirmed", "cancelled"}]
          /\ \A b \in Unpaid : booking[b] # "cancelled"
          /\ refunds \in [Paid -> Seq(RefundRow)]
          /\ request \in [Admins -> Request]
          /\ locked # NoAdmin => /\ locked \in Admins
                                 /\ request[locked].op = "cancel"
                                 /\ request[locked].step \in {"select", "commit"}
          /\ gateway \in [Paid -> {"none", "pending", "processed", "failed"}]
          /\ owed \subseteq RefundEvent
          /\ byHand \subseteq Paid /\ mishaps \subseteq Paid /\ between \subseteq Paid

(* A payment is refunded once: one row of refunds, one request that calls  *)
(* Razorpay for it, and none that calls again, however cancelShow runs     *)
(* against itself, bulkCancelShows and a restore in between.               *)
RefundedOnce ==
  /\ \A b \in Paid : Len(refunds[b]) <= 1
  /\ \A a \in Admins : \A b \in request[a].todo :
       /\ gateway[b] = "none"
       /\ \A other \in Admins \ {a} : b \notin request[other].todo

(* A refund, asked for or on record, belongs to a booking that is          *)
(* cancelled: no customer keeps a confirmed ticket and the money.          *)
RefundRowsAreCancelled ==
  \A b \in Paid : refunds[b] # << >> \/ gateway[b] # "none" => booking[b] = "cancelled"

(* A refund is shown as settled only after Razorpay has processed it, or   *)
(* an admin has said so: the customer is not told of money not returned.   *)
SettledIsPaidBack ==
  \A b \in Paid : \A i \in DOMAIN refunds[b] :
    refunds[b][i].status = "settled" => gateway[b] = "processed" \/ b \in byHand

(* A refund on record ends as settled or failed, unless one of the three   *)
(* accidents in mishaps happened: the request was abandoned after COMMIT,  *)
(* the webhook came before the id was stored, or it was recorded and lost. *)
InitiatedEnds ==
  \A b \in Paid :
    (\E i \in DOMAIN refunds[b] : refunds[b][i].status = "initiated")
      ~> (b \in mishaps \/ \A i \in DOMAIN refunds[b] : refunds[b][i].status # "initiated")

(* A paid booking is cancelled only together with a row of refunds, except *)
(* one made between the SELECT of a cancellation and its UPDATE, which     *)
(* repeats the SELECT's condition and not its result                       *)
(* (shows.Controller.js:561-587): that customer loses ticket and money.    *)
CancelledHasRefundRow ==
  \A b \in Paid : booking[b] = "cancelled" => refunds[b] # << >> \/ b \in between
=============================================================================
