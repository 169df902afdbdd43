------------------------------- MODULE Offers -------------------------------
(***************************************************************************)
(* Offers and who used them: offers.Controller.js and the parts of         *)
(* createOrder, verifyPayment and the webhooks of payment.Controller.js    *)
(* that concern an offer.                                                  *)
(*                                                                         *)
(* An order remembers the code of its offer, as text.  Whether the         *)
(* customer used the offer before is asked when the order is made; that    *)
(* they used it is recorded when the order is paid, for the offer that has *)
(* the code by then, and for the account that verifyPayment was called     *)
(* from, whoever made the order.  Amounts, eligibility and the scope of an *)
(* offer can only refuse an order, so they are left out.                   *)
(***************************************************************************)
EXTENDS Naturals, FiniteSets

CONSTANTS Customers, OfferIds, Codes, OrderIds, NoCustomer, NoOffer, NoOfferCode,
          MaxCallers   \* bound: the accounts that call verifyPayment for one order

ASSUME OffersAssumption ==
  NoCustomer \notin Customers /\ NoOffer \notin OfferIds /\ NoOfferCode \notin Codes

VARIABLES offer,      \* the table offers
          order,      \* payment_orders, from validateOfferCode on
          paying,     \* order -> the transaction that books it
          redemption, \* offer_redemptions, with the order of the booking
          touched     \* history: the offers that were renamed or deleted

offerVars == <<offer, order, paying, redemption, touched>>

Offer == [state : {"none", "stored", "deleted"}, code : Codes \cup {NoOfferCode}, usable : BOOLEAN]
(* History: the offer whose discount was given, the accounts for which a   *)
(* payment of the order was booked, and the orders booked for the customer *)
(* who made them when the redemption of this one was looked for.           *)
Order == [status : {"none", "looked", "checked", "created", "paid", "failed"},
          customer : Customers \cup {NoCustomer}, offer : OfferIds \cup {NoOffer},
          code : Codes \cup {NoOfferCode}, bookedFor : SUBSET Customers, bookedBefore : SUBSET OrderIds]
(* The accounts whose calls of verifyPayment found the order unpaid (any   *)
(* number of them may still go on), and the transaction that is running.   *)
Paying == [callers : SUBSET Customers, customer : Customers \cup {NoCustomer}, found : OfferIds \cup {NoOffer}]
Redemption == [offer : OfferIds, customer : Customers, order : OrderIds]

NotStored == [state |-> "none", code |-> NoOfferCode, usable |-> FALSE]
NoOrder == [status |-> "none", customer |-> NoCustomer, offer |-> NoOffer, code |-> NoOfferCode,
            bookedFor |-> {}, bookedBefore |-> {}]
NotPaying == [callers |-> {}, customer |-> NoCustomer, found |-> NoOffer]

Stored == {o \in OfferIds : offer[o].state = "stored"}
Placed(k) == order[k].status \in {"created", "paid", "failed"}
Booking(k) == paying[k].customer # NoCustomer
BookedByOwner == {k \in OrderIds : order[k].customer \in order[k].bookedFor}

OfferInit == /\ offer = [o \in OfferIds |-> NotStored]
             /\ order = [k \in OrderIds |-> NoOrder]
             /\ paying = [k \in OrderIds |-> NotPaying]
             /\ redemption = {}
             /\ touched = {}

-----------------------------------------------------------------------------
(* The unique key of offers.code. *)
CodeFree(c, o) == \A p \in Stored \ {o} : offer[p].code # c

CreateOffer(o, c) ==
  /\ offer[o].state = "none"
  /\ CodeFree(c, o)
  /\ offer' = [offer EXCEPT ![o] = [state |-> "stored", code |-> c, usable |-> TRUE]]
  /\ UNCHANGED <<order, paying, redemption, touched>>

(* The whole row is written: the code, is_active and valid_until. *)
UpdateOffer(o, c, usable) ==
  /\ o \in Stored
  /\ CodeFree(c, o)
  /\ offer' = [offer EXCEPT ![o].code = c, ![o].usable = usable]
  /\ touched' = IF c # offer[o].code THEN touched \cup {o} ELSE touched
  /\ UNCHANGED <<order, paying, redemption>>

DeleteOffer(o) ==
  /\ o \in Stored
  /\ offer' = [offer EXCEPT ![o] = [NotStored EXCEPT !.state = "deleted"]]
  /\ redemption' = {r \in redemption : r.offer # o}
  /\ touched' = touched \cup {o}
  /\ UNCHANGED <<order, paying>>

OfferExpires(o) ==
  /\ o \in Stored
  /\ offer' = [offer EXCEPT ![o].usable = FALSE]
  /\ UNCHANGED <<order, paying, redemption, touched>>

-----------------------------------------------------------------------------
(* createOrder: the offer is read, then its redemptions, and the order is  *)
(* inserted after the answer of the payment gateway.                       *)
ReadOffer(k, c, o) ==
  /\ order[k].status = "none"
  /\ o \in Stored /\ offer[o].usable
  /\ order' = [order EXCEPT ![k] = [NoOrder EXCEPT !.status = "looked", !.customer = c,
                                                   !.offer = o, !.code = offer[o].code]]
  /\ UNCHANGED <<offer, paying, redemption, touched>>

(* A slip: the redemption is looked for by booking, not by customer. *)
UnusedByOrder(k) == ~\E r \in redemption : r.offer = order[k].offer /\ r.order = k

Unused(k) == ~\E r \in redemption : r.offer = order[k].offer /\ r.customer = order[k].customer

CheckRedemption(k) ==
  /\ order[k].status = "looked"
  /\ Unused(k)
  /\ order' = [order EXCEPT ![k].status = "checked", ![k].bookedBefore = BookedByOwner]
  /\ UNCHANGED <<offer, paying, redemption, touched>>

InsertOrder(k) ==
  /\ order[k].status = "checked"
  /\ order' = [order EXCEPT ![k].status = "created"]
  /\ UNCHANGED <<offer, paying, redemption, touched>>

(* Used before, refused for another reason, or a call fails. *)
OrderRefused(k) ==
  /\ order[k].status \in {"looked", "checked"}
  /\ order' = [order EXCEPT ![k] = NoOrder]
  /\ UNCHANGED <<offer, paying, redemption, touched>>

ValidateOfferCode(k) == (\E c \in Customers, o \in OfferIds : ReadOffer(k, c, o)) \/ CheckRedemption(k)
CreateOrder(k) == ValidateOfferCode(k) \/ InsertOrder(k) \/ OrderRefused(k)

-----------------------------------------------------------------------------
(* verifyPayment reads the status of the order outside its transaction, and *)
(* does not ask whose order it is.                                         *)
VerifyRead(k, c) ==
  /\ Placed(k) /\ order[k].status # "paid"
  /\ Cardinality(paying[k].callers \cup {c}) <= MaxCallers
  /\ paying' = [paying EXCEPT ![k].callers = @ \cup {c}]
  /\ UNCHANGED <<offer, order, redemption, touched>>

(* A slip: LIMIT 1 without the condition on the code. *)
FoundAny(k) == IF Stored = {} THEN NoOffer ELSE CHOOSE o \in Stored : TRUE

Found(k) == IF \E o \in Stored : offer[o].code = order[k].code
              THEN CHOOSE o \in Stored : offer[o].code = order[k].code ELSE NoOffer

(* Both transactions hold the row of the order when they look the offer    *)
(* up, so there is one at a time.  verifyPayment books for its caller, the *)
(* webhook for the customer of the order, and it skips a paid order.       *)
FindOffer(k, c) ==
  /\ Placed(k) /\ ~Booking(k)
  /\ paying' = [paying EXCEPT ![k].customer = c, ![k].found = Found(k)]
  /\ UNCHANGED <<offer, order, redemption, touched>>

VerifyBegin(k, c) == c \in paying[k].callers /\ FindOffer(k, c)

(* A slip: the offer must still be usable. *)
RedeemedIfUsable(k) ==
  LET o == paying[k].found
      row == [offer |-> o, customer |-> paying[k].customer, order |-> k] IN
  IF o = NoOffer \/ \E r \in redemption : r.offer = o /\ r.customer = row.customer THEN redemption
  ELSE IF offer[o].usable THEN redemption \cup {row} ELSE redemption

(* ON CONFLICT (offer_id, customer_id) DO NOTHING *)
Redeemed(k) ==
  LET o == paying[k].found
      row == [offer |-> o, customer |-> paying[k].customer, order |-> k] IN
  IF o = NoOffer \/ \E r \in redemption : r.offer = o /\ r.customer = row.customer
    THEN redemption ELSE redemption \cup {row}

NotBooking(k) == paying' = [paying EXCEPT ![k].customer = NoCustomer, ![k].found = NoOffer]

(* INSERT and COMMIT; the foreign key wants the offer to be there still. *)
PaymentCommits(k) ==
  /\ Booking(k)
  /\ paying[k].found # NoOffer => paying[k].found \in Stored
  /\ redemption' = Redeemed(k)
  /\ order' = [order EXCEPT ![k].status = "paid", ![k].bookedFor = @ \cup {paying[k].customer}]
  /\ NotBooking(k)
  /\ UNCHANGED <<offer, touched>>

PaymentRollsBack(k) ==
  /\ Booking(k)
  /\ NotBooking(k)
  /\ UNCHANGED <<offer, order, redemption, touched>>

VerifyPayment(k) == \/ \E c \in Customers : VerifyRead(k, c) \/ VerifyBegin(k, c)
                    \/ PaymentCommits(k) \/ PaymentRollsBack(k)
HandlePaymentCaptured(k) == order[k].status # "paid" /\ FindOffer(k, order[k].customer)

(* The webhook of a failed attempt waits for the row of the order, and     *)
(* does not ask what its status is.                                        *)
HandlePaymentFailed(k) ==
  /\ Placed(k)
  /\ ~Booking(k)
  /\ order' = [order EXCEPT ![k].status = "failed"]
  /\ UNCHANGED <<offer, paying, redemption, touched>>

OfferNext ==
  \/ \E o \in OfferIds : DeleteOffer(o) \/ OfferExpires(o)
  \/ \E o \in OfferIds, c \in Codes : CreateOffer(o, c) \/ \E usable \in BOOLEAN : UpdateOffer(o, c, usable)
  \/ \E k \in OrderIds : CreateOrder(k) \/ VerifyPayment(k) \/ HandlePaymentCaptured(k) \/ HandlePaymentFailed(k)

OfferSpec == OfferInit /\ [][OfferNext]_offerVars

-----------------------------------------------------------------------------
(* Rows are rows; a code names one offer (createOffer, updateOffer), and   *)
(* a customer redeems an offer once (verifyPayment, the webhooks).         *)
OfferTypeOK ==
  /\ offer \in [OfferIds -> Offer]
  /\ order \in [OrderIds -> Order]
  /\ paying \in [OrderIds -> Paying]
  /\ redemption \subseteq Redemption
  /\ touched \subseteq OfferIds
  /\ \A o, p \in Stored : offer[o].code = offer[p].code => o = p
  /\ \A r, s \in redemption : r.offer = s.offer /\ r.customer = s.customer => r = s

(* A discount that was paid with is on record for every account a payment *)
(* of the order was booked for (verifyPayment and handlePaymentCaptured),  *)
(* whichever of them booked and whether or not the offer ended in between, *)
(* unless its code was changed or it was deleted: the order knows only the *)
(* code.                                                                   *)
DiscountIsRecorded ==
  \A k \in OrderIds : \A c \in order[k].bookedFor :
    order[k].offer \notin touched => \E r \in redemption : r.offer = order[k].offer /\ r.customer = c

(* What is recorded is an order of that customer, or one they called       *)
(* verifyPayment for (payment.Controller.js:215, 326), and the offer whose *)
(* discount it had, unless that offer changed its code (the lookup of the  *)
(* offer by its code at payment time).                                     *)
RecordedWasGiven ==
  \A r \in redemption :
    /\ r.customer \in {order[r.order].customer} \cup paying[r.order].callers
    /\ order[r.order].offer \in touched \cup {r.offer}

(* Two orders of a customer with the same discount are possible only if    *)
(* each was made before the other was booked for that customer             *)
(* (validateOfferCode).  An order that was verified from another account   *)
(* alone is not: its discount is on record for that account only, and the  *)
(* customer who made it may use the offer again.                           *)
OnceAfterPayment ==
  \A k, l \in BookedByOwner :
    (k # l /\ order[k].customer = order[l].customer /\ order[k].offer = order[l].offer)
      => order[k].offer \in touched \/ k \notin order[l].bookedBefore
=============================================================================
