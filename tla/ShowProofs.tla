----------------------------- MODULE ShowProofs ------------------------------
(***************************************************************************)
(* Proofs about a show: that its screen is free (ShowOverlap), and what    *)
(* becomes of its bookings when it is cancelled (Cancellations).           *)
(*                                                                         *)
(* The two share no variable, so each has a specification and an invariant *)
(* of its own; they are here together for what they are about.             *)
(***************************************************************************)
EXTENDS Cancellations, ShowOverlap, SequenceTheorems, TLAPS

-----------------------------------------------------------------------------
(***************************************************************************)
(* Proofs about Cancellations, for any admins and bookings.                *)
(*                                                                         *)
(* What a request is about to do was decided some statements before.  The  *)
(* inductive invariant says what of that is still so: the bookings a       *)
(* transaction has selected are confirmed, because only the transaction    *)
(* that has updated the show cancels, and those a request is still to      *)
(* refund are cancelled, on record and not asked for (RequestFits); and    *)
(* what Razorpay reports of a refund is so (EventsFit).                    *)
(***************************************************************************)
AtCommit(a) == At(a, "cancel", "commit")
Refunding(a) == request[a].op = "cancel" /\ request[a].step \in {"refund", "store", "fail"}

RequestFits(a) ==
  /\ request[a].todo # {} => AtCommit(a) \/ Refunding(a)
  /\ request[a].op = "cancel" /\ request[a].step \in {"select", "commit"} => locked = a
  /\ AtCommit(a) => /\ request[a].todo \subseteq Confirmed
                    /\ Paid \cap Confirmed \subseteq request[a].todo \cup between
  /\ Refunding(a) => \A b \in request[a].todo : booking[b] = "cancelled" /\ refunds[b] # << >>
  /\ request[a].op = "settle" \/ (Refunding(a) /\ request[a].step # "refund") => request[a].target \in Paid

RequestsFit == \A a \in Admins : RequestFits(a)

EventsFit ==
  \A e \in owed : gateway[e.booking] = IF e.kind = "refund.processed" THEN "processed" ELSE "failed"

CancellationsInv ==
  /\ TypeOK /\ RequestsFit /\ EventsFit
  /\ RefundedOnce /\ RefundRowsAreCancelled /\ SettledIsPaidBack /\ CancelledHasRefundRow

-----------------------------------------------------------------------------
(* Lemmas about requests and rows of refunds. *)

LEMMA IdleRequest ==
  /\ Idle \in Request
  /\ Idle.op = "idle" /\ Idle.step = "read" /\ Idle.todo = {}
  BY DEF Idle, Request

(* Goto moves a request on and leaves what it found alone. *)
LEMMA GotoStep ==
  ASSUME TypeOK, NEW a \in Admins,
         NEW step \in {"read", "update", "select", "commit", "refund", "store", "fail", "count", "write"},
         Goto(a, step)
  PROVE  /\ request' \in [Admins -> Request]
         /\ request'[a].step = step /\ request'[a].op = request[a].op
         /\ request'[a].todo = request[a].todo /\ request'[a].target = request[a].target
         /\ \A x \in Admins \ {a} : request'[x] = request[x]
  <1>1. request \in [Admins -> Request]
    BY DEF TypeOK
  <1>2. request' = [request EXCEPT ![a] = [request[a] EXCEPT !.step = step]]
    BY DEF Goto
  <1>3. [request[a] EXCEPT !.step = step] \in Request
    BY <1>1 DEF Request
  <1> QED BY <1>1, <1>2, <1>3 DEF Request

LEMMA StartStep ==
  ASSUME TypeOK, NEW a \in Admins,
         NEW op \in {"cancel", "open", "revert", "restore", "settle"},
         NEW step \in {"update", "count", "write"},
         Start(a, op, step)
  PROVE  /\ request' \in [Admins -> Request] /\ request[a] = Idle
         /\ request'[a].step = step /\ request'[a].op = op /\ request'[a].todo = {}
         /\ \A x \in Admins \ {a} : request'[x] = request[x]
  <1> DEFINE new == [Idle EXCEPT !.op = op, !.step = step]
  <1>1. new \in Request /\ new.step = step /\ new.op = op /\ new.todo = {}
    BY DEF Idle, Request
  <1>2. request' = [request EXCEPT ![a] = new] /\ request[a] = Idle
    BY DEF Start
  <1> HIDE DEF new
  <1> QED BY <1>1, <1>2 DEF TypeOK

LEMMA FinishStep ==
  ASSUME TypeOK, NEW a \in Admins, Finish(a)
  PROVE  /\ request' \in [Admins -> Request] /\ request'[a] = Idle
         /\ \A x \in Admins \ {a} : request'[x] = request[x]
  BY IdleRequest DEF TypeOK, Finish

(* An idle request, or one of another kind, fits any state.                *)
LEMMA NothingToDo ==
  ASSUME NEW a \in Admins, request[a].todo = {}, request[a].op \notin {"cancel", "settle"}
  PROVE  RequestFits(a)
  BY DEF RequestFits, AtCommit, Refunding, At

(* An UPDATE of the refunds of one booking keeps their number.             *)
LEMMA RefundRowsMapped ==
  ASSUME TypeOK, NEW b \in Paid,
         refunds'[b] \in [DOMAIN refunds[b] -> RefundRow],
         refunds' = [refunds EXCEPT ![b] = refunds'[b]]
  PROVE  /\ refunds' \in [Paid -> Seq(RefundRow)]
         /\ \A c \in Paid : /\ DOMAIN refunds'[c] = DOMAIN refunds[c] /\ Len(refunds'[c]) = Len(refunds[c])
                            /\ refunds'[c] = << >> <=> refunds[c] = << >>
         /\ \A c \in Paid \ {b} : refunds'[c] = refunds[c]
  <1> DEFINE old == refunds[b]
             new == refunds'[b]
  <1>1. refunds \in [Paid -> Seq(RefundRow)] /\ old \in Seq(RefundRow)
    BY DEF TypeOK
  <1>2. DOMAIN old = 1 .. Len(old) /\ Len(old) \in Nat
    BY <1>1
  <1>3. new \in [1 .. Len(old) -> RefundRow]
    BY <1>2
  <1>4. new \in Seq(RefundRow) /\ Len(new) = Len(old) /\ DOMAIN new = DOMAIN old
    BY <1>2, <1>3, IsASeq, LenProperties
  <1>5. new = << >> <=> old = << >>
    BY <1>1, <1>2, <1>4, EmptySeq
  <1>6. refunds' = [refunds EXCEPT ![b] = new]
    OBVIOUS
  <1> HIDE DEF new
  <1>7. refunds' \in [Paid -> Seq(RefundRow)] /\ \A c \in Paid \ {b} : refunds'[c] = refunds[c]
    BY <1>1, <1>4, <1>6
  <1> USE DEF new
  <1> QED BY <1>4, <1>5, <1>7

LEMMA SetStatusRows ==
  ASSUME TypeOK, NEW b \in Paid, NEW status \in {"initiated", "settled", "failed"}, SetStatus(b, status)
  PROVE  /\ refunds' \in [Paid -> Seq(RefundRow)]
         /\ \A c \in Paid : /\ DOMAIN refunds'[c] = DOMAIN refunds[c] /\ Len(refunds'[c]) = Len(refunds[c])
                            /\ refunds'[c] = << >> <=> refunds[c] = << >>
         /\ \A c \in Paid : \A i \in DOMAIN refunds[c] :
              refunds'[c][i].status = IF c = b THEN status ELSE refunds[c][i].status
  <1> DEFINE new == [i \in DOMAIN refunds[b] |-> [refunds[b][i] EXCEPT !.status = status]]
  <1>1. refunds \in [Paid -> Seq(RefundRow)] /\ refunds[b] \in Seq(RefundRow)
    BY DEF TypeOK
  <1>2. \A i \in DOMAIN refunds[b] : refunds[b][i] \in RefundRow
    BY <1>1
  <1>3. \A r \in RefundRow : /\ [r EXCEPT !.status = status] \in RefundRow
                             /\ [r EXCEPT !.status = status].status = status
    BY DEF RefundRow
  <1>4. /\ new \in [DOMAIN refunds[b] -> RefundRow]
        /\ \A i \in DOMAIN refunds[b] : new[i].status = status
    BY <1>2, <1>3
  <1>5. refunds' = [refunds EXCEPT ![b] = new]
    BY DEF SetStatus
  <1> HIDE DEF new
  <1>6. refunds'[b] = new
    BY <1>1, <1>5
  <1> QED BY <1>4, <1>5, <1>6, RefundRowsMapped

LEMMA StoreIdRows ==
  ASSUME TypeOK, NEW b \in Paid, StoreId(b)
  PROVE  /\ refunds' \in [Paid -> Seq(RefundRow)]
         /\ \A c \in Paid : /\ DOMAIN refunds'[c] = DOMAIN refunds[c] /\ Len(refunds'[c]) = Len(refunds[c])
                            /\ refunds'[c] = << >> <=> refunds[c] = << >>
         /\ \A c \in Paid : \A i \in DOMAIN refunds[c] : refunds'[c][i].status = refunds[c][i].status
  <1> DEFINE new == [i \in DOMAIN refunds[b] |-> [refunds[b][i] EXCEPT !.id = TRUE]]
  <1>1. refunds \in [Paid -> Seq(RefundRow)] /\ refunds[b] \in Seq(RefundRow)
    BY DEF TypeOK
  <1>2. \A i \in DOMAIN refunds[b] : refunds[b][i] \in RefundRow
    BY <1>1
  <1>3. \A r \in RefundRow : /\ [r EXCEPT !.id = TRUE] \in RefundRow
                             /\ [r EXCEPT !.id = TRUE].status = r.status
    BY DEF RefundRow
  <1>4. /\ new \in [DOMAIN refunds[b] -> RefundRow]
        /\ \A i \in DOMAIN refunds[b] : new[i].status = refunds[b][i].status
    BY <1>2, <1>3
  <1>5. refunds' = [refunds EXCEPT ![b] = new]
    BY DEF StoreId
  <1> HIDE DEF new
  <1>6. refunds'[b] = new
    BY <1>1, <1>5
  <1> QED BY <1>4, <1>5, <1>6, RefundRowsMapped

(* A step that makes no booking, asks for no refund and selects nothing.   *)
LEMMA KeepStep ==
  ASSUME CancellationsInv, TypeOK',
         booking' = booking, gateway' = gateway, owed' \subseteq owed,
         between \subseteq between', byHand \subseteq byHand',
         \A b \in Paid : /\ DOMAIN refunds'[b] = DOMAIN refunds[b] /\ Len(refunds'[b]) = Len(refunds[b])
                         /\ refunds'[b] = << >> <=> refunds[b] = << >>,
         \A b \in Paid : \A i \in DOMAIN refunds[b] : refunds'[b][i].status = "settled" =>
           refunds[b][i].status = "settled" \/ gateway[b] = "processed" \/ b \in byHand',
         \A a \in Admins : request'[a].todo \subseteq request[a].todo,
         \A a \in Admins : RequestFits(a)' \/ (request'[a] = request[a] /\ (locked = a => locked' = a))
  PROVE  CancellationsInv'
  <1> USE DEF CancellationsInv
  <1>1. RefundedOnce'
    <2>1. \A b \in Paid : Len(refunds'[b]) <= 1
      BY DEF RefundedOnce
    <2>2. ASSUME NEW a \in Admins, NEW b \in request'[a].todo
          PROVE  /\ gateway'[b] = "none"
                 /\ \A other \in Admins \ {a} : b \notin request'[other].todo
      BY DEF RefundedOnce
    <2> QED BY <2>1, <2>2 DEF RefundedOnce
  <1>2. RefundRowsAreCancelled'
    BY DEF RefundRowsAreCancelled
  <1>3. SettledIsPaidBack'
    BY DEF SettledIsPaidBack
  <1>4. CancelledHasRefundRow'
    BY DEF CancelledHasRefundRow
  <1>5. EventsFit'
    BY DEF EventsFit
  <1>6. ASSUME NEW a \in Admins, request'[a] = request[a], locked = a => locked' = a
        PROVE  RequestFits(a)'
    <2>1. Confirmed' = Confirmed
      BY DEF Confirmed
    <2>2. RequestFits(a) /\ request[a].todo \subseteq Paid
      BY DEF RequestsFit, TypeOK, Request
    <2> QED BY <1>6, <2>1, <2>2 DEF RequestFits, AtCommit, Refunding, At
  <1> QED BY <1>1, <1>2, <1>3, <1>4, <1>5, <1>6 DEF RequestsFit

-----------------------------------------------------------------------------
(* The actions. *)

LEMMA CancellationsInit == Init => CancellationsInv
  <1> SUFFICES ASSUME Init PROVE CancellationsInv
    OBVIOUS
  <1> USE DEF Init
  <1>1. << >> \in Seq(RefundRow) /\ Len(<< >>) = 0
    OBVIOUS
  <1>2. TypeOK
    BY <1>1, IdleRequest DEF TypeOK, ShowStatuses, Bookings
  <1>3. RequestsFit
    BY IdleRequest, NothingToDo DEF RequestsFit
  <1>4. EventsFit /\ RefundedOnce
    BY <1>1, IdleRequest DEF EventsFit, RefundedOnce
  <1>5. RefundRowsAreCancelled /\ SettledIsPaidBack /\ CancelledHasRefundRow
    BY DEF RefundRowsAreCancelled, SettledIsPaidBack, CancelledHasRefundRow, Bookings
  <1> QED BY <1>2, <1>3, <1>4, <1>5 DEF CancellationsInv

(* The steps of a cancellation that only move it on.                       *)
LEMMA CancelShowMoves ==
  ASSUME CancellationsInv, NEW a \in Admins,
         CancelShowRead(a) \/ CancelShowUpdate(a) \/ CancelShowRollback(a) \/ RefundStoreThrows(a)
           \/ CancelShowAbandon(a) \/ CancelShowEnd(a)
  PROVE  CancellationsInv'
  <1> USE DEF historyVars, gatewayVars
  <1>0. TypeOK /\ RequestFits(a) /\ \A x \in Admins \ {a} : RequestFits(x)
    BY DEF CancellationsInv, RequestsFit
  <1>1. UNCHANGED <<show, phase, booking, refunds, gateway, owed, byHand, between>>
    BY DEF CancelShowRead, CancelShowUpdate, CancelShowRollback, RefundStoreThrows, CancelShowAbandon,
           CancelShowEnd
  <1> DEFINE Moved == /\ TypeOK' /\ RequestFits(a)' /\ request'[a].todo \subseteq request[a].todo
                      /\ \A x \in Admins \ {a} : request'[x] = request[x] /\ (locked = x => locked' = x)
  <1>2. ASSUME CancelShowRead(a) PROVE Moved
    <2>1. /\ request' \in [Admins -> Request] /\ request[a] = Idle /\ request'[a].op = "cancel"
          /\ request'[a].step = "update" /\ request'[a].todo = {}
          /\ \A x \in Admins \ {a} : request'[x] = request[x]
      BY <1>0, <1>2, StartStep DEF CancelShowRead
    <2>2. locked' = locked /\ mishaps' = mishaps
      BY <1>2 DEF CancelShowRead
    <2>3. RequestFits(a)'
      BY <2>1 DEF RequestFits, AtCommit, Refunding, At
    <2>4. TypeOK'
      BY <1>0, <1>1, <2>1, <2>2, IdleRequest DEF TypeOK
    <2> QED BY <2>1, <2>2, <2>3, <2>4
  <1>3. ASSUME CancelShowUpdate(a) PROVE Moved
    <2>1. /\ request' \in [Admins -> Request] /\ request'[a].op = "cancel"
          /\ request'[a].step = "select" /\ request'[a].todo = request[a].todo
          /\ \A x \in Admins \ {a} : request'[x] = request[x]
      BY <1>0, <1>3, GotoStep DEF CancelShowUpdate, At
    <2>2. locked' = a /\ locked = NoAdmin /\ mishaps' = mishaps
      BY <1>3 DEF CancelShowUpdate, RowFree
    <2>3. request[a].todo = {}
      BY <1>0, <1>3 DEF CancelShowUpdate, RequestFits, AtCommit, Refunding, At
    <2>4. RequestFits(a)'
      BY <2>1, <2>2, <2>3 DEF RequestFits, AtCommit, Refunding, At
    <2>5. TypeOK'
      BY <1>0, <1>1, <2>1, <2>2 DEF TypeOK
    <2> QED BY <2>1, <2>2, <2>4, <2>5, CancellationsAssumption
  <1>4. ASSUME CancelShowRollback(a) PROVE Moved
    <2>1. /\ request' \in [Admins -> Request] /\ request'[a] = Idle
          /\ \A x \in Admins \ {a} : request'[x] = request[x]
      BY <1>0, <1>4, FinishStep DEF CancelShowRollback
    <2>2. locked' = (IF locked = a THEN NoAdmin ELSE locked) /\ mishaps' = mishaps
      BY <1>4 DEF CancelShowRollback
    <2>3. RequestFits(a)'
      BY <2>1, IdleRequest DEF RequestFits, AtCommit, Refunding, At
    <2>4. TypeOK'
      BY <1>0, <1>1, <2>1, <2>2 DEF TypeOK
    <2> QED BY <2>1, <2>2, <2>3, <2>4, IdleRequest
  <1>5. ASSUME RefundStoreThrows(a) PROVE Moved
    <2>1. /\ request' \in [Admins -> Request] /\ request'[a].op = "cancel" /\ request'[a].step = "fail"
          /\ request'[a].todo = request[a].todo /\ request'[a].target = request[a].target
          /\ \A x \in Admins \ {a} : request'[x] = request[x]
          /\ request[a].op = "cancel" /\ request[a].step = "store"
      BY <1>0, <1>5, GotoStep DEF RefundStoreThrows, At
    <2>2. locked' = locked /\ mishaps' = mishaps
      BY <1>5 DEF RefundStoreThrows
    <2>3. RequestFits(a)'
      BY <1>0, <1>1, <2>1 DEF RequestFits, AtCommit, Refunding, At
    <2>4. TypeOK'
      BY <1>0, <1>1, <2>1, <2>2 DEF TypeOK
    <2> QED BY <2>1, <2>2, <2>3, <2>4
  <1>6. ASSUME CancelShowAbandon(a) \/ CancelShowEnd(a) PROVE Moved
    <2>1. /\ request' \in [Admins -> Request] /\ request'[a] = Idle
          /\ \A x \in Admins \ {a} : request'[x] = request[x]
          /\ request[a].op = "cancel" /\ request[a].step \in {"refund", "store", "fail"}
      BY <1>0, <1>6, FinishStep DEF CancelShowAbandon, CancelShowEnd, At
    <2>2. locked' = locked
      BY <1>6 DEF CancelShowAbandon, CancelShowEnd
    <2>3. mishaps' \subseteq Paid
      <3>1. request[a].todo \subseteq Paid /\ mishaps \subseteq Paid
            /\ (request[a].step # "refund" => request[a].target \in Paid)
        BY <1>0, <2>1 DEF TypeOK, Request, RequestFits, Refunding
      <3> QED BY <1>6, <3>1 DEF CancelShowAbandon, CancelShowEnd
    <2>4. RequestFits(a)'
      BY <2>1, IdleRequest DEF RequestFits, AtCommit, Refunding, At
    <2>5. TypeOK'
      BY <1>0, <1>1, <2>1, <2>2, <2>3 DEF TypeOK
    <2> QED BY <2>1, <2>2, <2>4, <2>5, IdleRequest
  <1>7. Moved
    BY <1>2, <1>3, <1>4, <1>5, <1>6
  <1> QED BY <1>0, <1>1, <1>7, KeepStep

(* The SELECT: what it finds is confirmed, and nobody else has it.         *)
LEMMA CancelShowSelectStep ==
  ASSUME CancellationsInv, NEW a \in Admins, CancelShowSelect(a)
  PROVE  CancellationsInv'
  <1> USE DEF historyVars, gatewayVars
  <1>0. TypeOK /\ \A x \in Admins : RequestFits(x)
    BY DEF CancellationsInv, RequestsFit
  <1>1. UNCHANGED <<show, phase, booking, refunds, locked, gateway, owed, byHand, mishaps, between>>
    BY DEF CancelShowSelect
  <1>2. /\ request' \in [Admins -> Request]
        /\ request[a].op = "cancel" /\ request[a].step = "select"
        /\ request'[a].op = "cancel" /\ request'[a].step = "commit"
        /\ request'[a].todo = Paid \cap Confirmed
        /\ \A x \in Admins \ {a} : request'[x] = request[x]
    <2> DEFINE new == [request[a] EXCEPT !.step = "commit", !.todo = Paid \cap Confirmed]
    <2>1. request \in [Admins -> Request]
      BY <1>0 DEF TypeOK
    <2>2. new \in Request /\ new.op = request[a].op /\ new.step = "commit" /\ new.todo = Paid \cap Confirmed
      BY <2>1 DEF Request
    <2>3. request' = [request EXCEPT ![a] = new] /\ At(a, "cancel", "select")
      BY DEF CancelShowSelect
    <2> HIDE DEF new
    <2> QED BY <2>1, <2>2, <2>3 DEF At
  <1>3. TypeOK'
    BY <1>0, <1>1, <1>2 DEF TypeOK
  <1>4. locked = a
    BY <1>0, <1>2 DEF RequestFits
  <1>5. Confirmed' = Confirmed
    BY <1>1 DEF Confirmed
  <1>6. RequestsFit'
    <2>1. RequestFits(a)'
      BY <1>1, <1>2, <1>4, <1>5 DEF RequestFits, AtCommit, Refunding, At
    <2>2. ASSUME NEW x \in Admins \ {a} PROVE RequestFits(x)'
      BY <1>0, <1>1, <1>2, <1>5 DEF RequestFits, AtCommit, Refunding, At
    <2> QED BY <2>1, <2>2 DEF RequestsFit
  <1>7. RefundedOnce'
    <2>1. ASSUME NEW x \in Admins \ {a}, NEW b \in request[x].todo PROVE b \notin Confirmed
      <3>1. ~AtCommit(x)
        BY <1>0, <1>4 DEF RequestFits, AtCommit, At
      <3>2. booking[b] = "cancelled"
        BY <1>0, <2>1, <3>1 DEF RequestFits
      <3> QED BY <3>2 DEF Confirmed
    <2>2. ASSUME NEW b \in Paid \cap Confirmed PROVE gateway[b] = "none"
      BY DEF CancellationsInv, RefundRowsAreCancelled, Confirmed
    <2>3. \A b \in Paid : Len(refunds'[b]) <= 1
      BY <1>1 DEF CancellationsInv, RefundedOnce
    <2>4. ASSUME NEW x \in Admins, NEW b \in request'[x].todo
          PROVE  gateway'[b] = "none" /\ \A other \in Admins \ {x} : b \notin request'[other].todo
      <3>1. CASE x = a
        BY <2>1, <2>2, <2>4, <3>1, <1>1, <1>2
      <3>2. CASE x # a
        BY <2>1, <2>4, <3>2, <1>1, <1>2 DEF CancellationsInv, RefundedOnce
      <3> QED BY <3>1, <3>2
    <2> QED BY <2>3, <2>4 DEF RefundedOnce
  <1>8. EventsFit' /\ RefundRowsAreCancelled' /\ SettledIsPaidBack' /\ CancelledHasRefundRow'
    BY <1>1 DEF CancellationsInv, EventsFit, RefundRowsAreCancelled, SettledIsPaidBack, CancelledHasRefundRow
  <1> QED BY <1>3, <1>6, <1>7, <1>8 DEF CancellationsInv

(* The COMMIT: exactly the selected bookings get a row of refunds, and     *)
(* they, with any made in between, are cancelled.                          *)
LEMMA CancelShowCommitStep ==
  ASSUME CancellationsInv, NEW a \in Admins, CancelShowCommit(a)
  PROVE  CancellationsInv'
  <1> USE DEF historyVars, gatewayVars
  <1> DEFINE T == request[a].todo
             new == [status |-> "initiated", id |-> FALSE]
  <1>0. TypeOK /\ \A x \in Admins : RequestFits(x)
    BY DEF CancellationsInv, RequestsFit
  <1>1. UNCHANGED <<phase, gateway, owed, byHand, mishaps, between>> /\ show' = "cancelled" /\ locked' = NoAdmin
    BY DEF CancelShowCommit
  <1>2. /\ request' \in [Admins -> Request]
        /\ request[a].op = "cancel" /\ request[a].step = "commit"
        /\ request'[a].op = "cancel" /\ request'[a].step = "refund" /\ request'[a].todo = T
        /\ \A x \in Admins \ {a} : request'[x] = request[x]
    BY <1>0, GotoStep DEF CancelShowCommit, At
  <1>3. /\ locked = a /\ T \subseteq Paid /\ T \subseteq Confirmed
        /\ Paid \cap Confirmed \subseteq T \cup between
    BY <1>0, <1>2 DEF RequestFits, AtCommit, At, TypeOK, Request
  <1>4. \A x \in Admins \ {a} : ~AtCommit(x) /\ ~(request[x].op = "cancel" /\ request[x].step = "select")
    BY <1>0, <1>3 DEF RequestFits, AtCommit, At
  <1>5. \A b \in T : refunds[b] = << >> /\ gateway[b] = "none" /\ booking[b] = "confirmed"
    BY <1>3 DEF CancellationsInv, RefundRowsAreCancelled, Confirmed
  <1>6. /\ booking' \in [Bookings -> {"none", "confirmed", "cancelled"}]
        /\ \A b \in Bookings : booking'[b] = IF b \in Paid /\ booking[b] = "confirmed" /\ T # {} THEN "cancelled"
                                             ELSE booking[b]
    BY <1>0 DEF CancelShowCommit, CancelledBookings, Confirmed, TypeOK
  <1>7. /\ refunds' \in [Paid -> Seq(RefundRow)]
        /\ \A b \in T : Len(refunds'[b]) = 1 /\ refunds'[b] # << >> /\ refunds'[b] = Append(refunds[b], new)
        /\ \A b \in Paid \ T : refunds'[b] = refunds[b]
    <2>1. new \in RefundRow
      BY DEF RefundRow
    <2>2. refunds' = [b \in Paid |-> IF b \in T THEN Append(refunds[b], new) ELSE refunds[b]]
      BY DEF CancelShowCommit, NewRefunds
    <2>3. refunds \in [Paid -> Seq(RefundRow)]
      BY <1>0 DEF TypeOK
    <2> HIDE DEF new
    <2>4. \A b \in Paid : Append(refunds[b], new) \in Seq(RefundRow)
      BY <2>1, <2>3
    <2>5. Len(Append(<< >>, new)) = 1 /\ Append(<< >>, new) # << >>
      OBVIOUS
    <2> QED BY <2>2, <2>3, <2>4, <2>5, <1>3, <1>5
  <1>8. \A b \in T : \A i \in DOMAIN refunds'[b] : refunds'[b][i].status = "initiated"
    <2>1. \A b \in T : refunds'[b] = Append(<< >>, new)
      BY <1>5, <1>7
    <2>2. DOMAIN Append(<< >>, new) = {1} /\ Append(<< >>, new)[1] = new
      OBVIOUS
    <2> QED BY <2>1, <2>2
  <1>9. TypeOK'
    <2>1. \A b \in Unpaid : booking'[b] # "cancelled"
      BY <1>0, <1>6, CancellationsAssumption DEF TypeOK, Bookings
    <2> QED BY <1>0, <1>1, <1>2, <1>6, <1>7, <2>1 DEF TypeOK, ShowStatuses
  <1>10. RequestsFit'
    <2>1. ASSUME NEW b \in T PROVE booking'[b] = "cancelled" /\ refunds'[b] # << >>
      BY <1>3, <1>5, <1>6, <1>7 DEF Bookings
    <2>2. RequestFits(a)'
      BY <1>2, <2>1 DEF RequestFits, AtCommit, Refunding, At
    <2>3. ASSUME NEW x \in Admins \ {a} PROVE RequestFits(x)'
      <3>1. ASSUME NEW b \in request[x].todo PROVE booking'[b] = "cancelled" /\ refunds'[b] # << >>
        <4>1. b \in Paid /\ booking[b] = "cancelled" /\ refunds[b] # << >>
          BY <1>0, <1>4, <3>1 DEF RequestFits, TypeOK, Request
        <4> QED BY <4>1, <1>5, <1>6, <1>7 DEF Bookings
      <3> QED BY <1>0, <1>2, <1>4, <3>1 DEF RequestFits, AtCommit, Refunding, At
    <2> QED BY <2>2, <2>3 DEF RequestsFit
  <1>11. RefundedOnce'
    <2>1. \A b \in Paid : Len(refunds'[b]) <= 1
      BY <1>7 DEF CancellationsInv, RefundedOnce
    <2>2. \A x \in Admins : request'[x].todo = request[x].todo
      BY <1>2
    <2> QED BY <1>1, <2>1, <2>2 DEF CancellationsInv, RefundedOnce
  <1>12. RefundRowsAreCancelled'
    BY <1>1, <1>3, <1>5, <1>6, <1>7 DEF CancellationsInv, RefundRowsAreCancelled, Bookings
  <1>13. SettledIsPaidBack'
    BY <1>1, <1>7, <1>8 DEF CancellationsInv, SettledIsPaidBack
  <1>14. CancelledHasRefundRow'
    <2>1. ASSUME NEW b \in Paid \ T, booking'[b] = "cancelled" PROVE refunds[b] # << >> \/ b \in between
      <3>1. booking[b] = "cancelled" \/ b \in Paid \cap Confirmed
        BY <2>1, <1>6 DEF Bookings, Confirmed
      <3> QED BY <2>1, <3>1, <1>3 DEF CancellationsInv, CancelledHasRefundRow
    <2> QED BY <1>1, <1>7, <2>1 DEF CancelledHasRefundRow
  <1>15. EventsFit'
    BY <1>1 DEF CancellationsInv, EventsFit
  <1> QED BY <1>9, <1>10, <1>11, <1>12, <1>13, <1>14, <1>15 DEF CancellationsInv

(* The call to Razorpay takes a booking off the list.                      *)
LEMMA RefundCallStep ==
  ASSUME CancellationsInv, NEW a \in Admins, NEW b \in Paid, RefundCall(a, b)
  PROVE  CancellationsInv'
  <1> USE DEF historyVars
  <1>0. TypeOK /\ \A x \in Admins : RequestFits(x)
    BY DEF CancellationsInv, RequestsFit
  <1>1. UNCHANGED <<show, phase, booking, refunds, locked, owed, byHand, mishaps, between>>
        /\ request[a].op = "cancel" /\ request[a].step = "refund" /\ b \in request[a].todo
    BY DEF RefundCall, At
  <1>2. /\ request' \in [Admins -> Request]
        /\ request'[a].op = "cancel" /\ request'[a].step \in {"store", "fail"}
        /\ request'[a].target = b /\ request'[a].todo = request[a].todo \ {b}
        /\ \A x \in Admins \ {a} : request'[x] = request[x]
    <2>1. PICK step \in {"store", "fail"} :
            request' = [request EXCEPT ![a] = [request[a] EXCEPT !.step = step, !.target = b, !.todo = @ \ {b}]]
      BY DEF RefundCall
    <2> DEFINE new == [request[a] EXCEPT !.step = step, !.target = b, !.todo = @ \ {b}]
    <2>2. request \in [Admins -> Request]
      BY <1>0 DEF TypeOK
    <2>3. /\ new \in Request /\ new.op = request[a].op /\ new.step = step /\ new.target = b
          /\ new.todo = request[a].todo \ {b}
      BY <2>2 DEF Request
    <2> HIDE DEF new
    <2>4. request' = [request EXCEPT ![a] = new]
      BY <2>1 DEF new
    <2> QED BY <1>1, <2>2, <2>3, <2>4
  <1>3. /\ gateway' \in [Paid -> {"none", "pending", "processed", "failed"}]
        /\ gateway[b] = "none" /\ booking[b] = "cancelled" /\ refunds[b] # << >>
        /\ \A c \in Paid \ {b} : gateway'[c] = gateway[c]
        /\ \A x \in Admins \ {a} : b \notin request[x].todo
    BY <1>0, <1>1 DEF RefundCall, TypeOK, RequestFits, Refunding, CancellationsInv, RefundedOnce
  <1>4. TypeOK'
    BY <1>0, <1>1, <1>2, <1>3 DEF TypeOK
  <1>5. RequestsFit'
    <2>1. Confirmed' = Confirmed
      BY <1>1 DEF Confirmed
    <2>2. RequestFits(a)'
      BY <1>0, <1>1, <1>2 DEF RequestFits, AtCommit, Refunding, At
    <2>3. ASSUME NEW x \in Admins \ {a} PROVE RequestFits(x)'
      BY <1>0, <1>1, <1>2, <2>1 DEF RequestFits, AtCommit, Refunding, At
    <2> QED BY <2>2, <2>3 DEF RequestsFit
  <1>6. RefundedOnce'
    <2>1. \A c \in Paid : Len(refunds'[c]) <= 1
      BY <1>1 DEF CancellationsInv, RefundedOnce
    <2>2. ASSUME NEW x \in Admins, NEW c \in request'[x].todo
          PROVE  gateway'[c] = "none" /\ \A other \in Admins \ {x} : c \notin request'[other].todo
      <3>1. c \in Paid \ {b} /\ c \in request[x].todo
        BY <2>2, <1>0, <1>2, <1>3 DEF TypeOK, Request
      <3> QED BY <3>1, <1>2, <1>3 DEF CancellationsInv, RefundedOnce
    <2> QED BY <2>1, <2>2 DEF RefundedOnce
  <1>7. EventsFit'
    <2>1. \A e \in owed : e.booking \in Paid
      BY <1>0 DEF TypeOK, RefundEvent
    <2> QED BY <1>1, <1>3, <2>1 DEF CancellationsInv, EventsFit
  <1>8. RefundRowsAreCancelled' /\ CancelledHasRefundRow'
    BY <1>1, <1>3 DEF CancellationsInv, RefundRowsAreCancelled, CancelledHasRefundRow
  <1>9. SettledIsPaidBack'
    BY <1>1, <1>3 DEF CancellationsInv, SettledIsPaidBack
  <1> QED BY <1>4, <1>5, <1>6, <1>7, <1>8, <1>9 DEF CancellationsInv

(* The UPDATEs of refunds after the call.                                  *)
LEMMA RefundUpdateStep ==
  ASSUME CancellationsInv, NEW a \in Admins, RefundStoreId(a) \/ RefundMarkFailed(a)
  PROVE  CancellationsInv'
  <1> USE DEF historyVars, gatewayVars
  <1>0. TypeOK /\ RequestFits(a)
    BY DEF CancellationsInv, RequestsFit
  <1>1. UNCHANGED <<show, phase, booking, locked, gateway, owed, byHand, mishaps, between>>
    BY DEF RefundStoreId, RefundMarkFailed
  <1>2. /\ request' \in [Admins -> Request]
        /\ request[a].op = "cancel" /\ request[a].step \in {"store", "fail"}
        /\ request'[a].op = "cancel" /\ request'[a].step = "refund"
        /\ request'[a].todo = request[a].todo
        /\ \A x \in Admins \ {a} : request'[x] = request[x]
    BY <1>0, GotoStep DEF RefundStoreId, RefundMarkFailed, At
  <1>3. request[a].target \in Paid
    BY <1>0, <1>2 DEF RequestFits, Refunding
  <1>4. /\ refunds' \in [Paid -> Seq(RefundRow)]
        /\ \A c \in Paid : /\ DOMAIN refunds'[c] = DOMAIN refunds[c] /\ Len(refunds'[c]) = Len(refunds[c])
                           /\ refunds'[c] = << >> <=> refunds[c] = << >>
        /\ \A c \in Paid : \A i \in DOMAIN refunds[c] :
             refunds'[c][i].status \in {refunds[c][i].status, "failed"}
    <2>1. CASE RefundStoreId(a)
      BY <1>0, <1>3, <2>1, StoreIdRows DEF RefundStoreId
    <2>2. CASE RefundMarkFailed(a)
      BY <1>0, <1>3, <2>2, SetStatusRows DEF RefundMarkFailed
    <2> QED BY <2>1, <2>2
  <1>5. TypeOK'
    BY <1>0, <1>1, <1>2, <1>4 DEF TypeOK
  <1>6. RequestFits(a)'
    BY <1>0, <1>1, <1>2, <1>4 DEF RequestFits, AtCommit, Refunding, At, TypeOK, Request
  <1> QED BY <1>1, <1>2, <1>4, <1>5, <1>6, KeepStep

(* The status endpoints touch nothing but the status.                      *)
LEMMA UpdateShowBookingStatusStep ==
  ASSUME CancellationsInv, NEW a \in Admins, UpdateShowBookingStatus(a)
  PROVE  CancellationsInv'
  <1> USE DEF historyVars, gatewayVars
  <1>0. TypeOK /\ RequestFits(a)
    BY DEF CancellationsInv, RequestsFit
  <1>1. UNCHANGED <<phase, booking, refunds, locked, gateway, owed, byHand, mishaps, between>>
        /\ show' \in ShowStatuses
    BY <1>0 DEF UpdateShowBookingStatus, ShowWrite, TypeOK, ShowStatuses
  <1>2. /\ request' \in [Admins -> Request]
        /\ request[a].op # "cancel"
        /\ request'[a].op \notin {"cancel", "settle"} /\ request'[a].todo = {}
        /\ \A x \in Admins \ {a} : request'[x] = request[x]
    <2>1. CASE OpenRead(a) \/ RevertRead(a) \/ RestoreRead(a)
      BY <1>0, <2>1, StartStep, IdleRequest DEF OpenRead, RevertRead, RestoreRead
    <2>2. CASE RevertCount(a)
      <3>1. request[a].op = "revert" /\ request[a].todo = {}
        BY <1>0, <2>2 DEF RevertCount, At, RequestFits, AtCommit, Refunding
      <3>2. CASE Goto(a, "write")
        BY <1>0, <3>1, <3>2, GotoStep
      <3>3. CASE Finish(a)
        BY <1>0, <3>1, <3>3, FinishStep, IdleRequest
      <3> QED BY <2>2, <3>2, <3>3 DEF RevertCount
    <2>3. CASE ShowWrite(a)
      BY <1>0, <2>3, FinishStep, IdleRequest DEF ShowWrite
    <2> QED BY <2>1, <2>2, <2>3 DEF UpdateShowBookingStatus
  <1>3. TypeOK'
    BY <1>0, <1>1, <1>2 DEF TypeOK
  <1>4. RequestFits(a)'
    BY <1>2 DEF RequestFits, AtCommit, Refunding, At
  <1> QED BY <1>1, <1>2, <1>3, <1>4, KeepStep

LEMMA ManuallySettleRefundStep ==
  ASSUME CancellationsInv, NEW a \in Admins, ManuallySettleRefund(a) \/ RequestFails(a)
  PROVE  CancellationsInv'
  <1> USE DEF historyVars, gatewayVars
  <1>0. TypeOK /\ RequestFits(a)
    BY DEF CancellationsInv, RequestsFit
  <1>1. ASSUME NEW b \in Paid, SettleRead(a, b) PROVE CancellationsInv'
    <2> DEFINE new == [Idle EXCEPT !.op = "settle", !.step = "write", !.target = b]
    <2>1. new \in Request /\ new.op = "settle" /\ new.todo = {} /\ new.target = b
      BY DEF Idle, Request
    <2>2. request' = [request EXCEPT ![a] = new] /\ request[a] = Idle
          /\ UNCHANGED <<show, phase, booking, refunds, locked, gateway, owed, byHand, mishaps, between>>
      BY <1>1 DEF SettleRead
    <2> HIDE DEF new
    <2>3. /\ request' \in [Admins -> Request] /\ request'[a] = new
          /\ \A x \in Admins \ {a} : request'[x] = request[x]
      BY <1>0, <2>1, <2>2 DEF TypeOK
    <2>4. TypeOK'
      BY <1>0, <2>2, <2>3, IdleRequest DEF TypeOK
    <2>5. RequestFits(a)'
      BY <2>1, <2>3 DEF RequestFits, AtCommit, Refunding, At
    <2> QED BY <2>1, <2>2, <2>3, <2>4, <2>5, KeepStep
  <1>2. CASE SettleWrite(a)
    <2>1. /\ request' \in [Admins -> Request] /\ request'[a] = Idle /\ request[a].op = "settle"
          /\ \A x \in Admins \ {a} : request'[x] = request[x]
      BY <1>0, <1>2, FinishStep DEF SettleWrite, At
    <2>2. request[a].target \in Paid
      BY <1>0, <2>1 DEF RequestFits
    <2>3. /\ UNCHANGED <<show, phase, booking, locked, gateway, owed, mishaps, between>>
          /\ byHand' = byHand \cup {request[a].target}
      BY <1>2 DEF SettleWrite
    <2>4. /\ refunds' \in [Paid -> Seq(RefundRow)]
          /\ \A c \in Paid : /\ DOMAIN refunds'[c] = DOMAIN refunds[c] /\ Len(refunds'[c]) = Len(refunds[c])
                             /\ refunds'[c] = << >> <=> refunds[c] = << >>
          /\ \A c \in Paid : \A i \in DOMAIN refunds[c] :
               refunds'[c][i].status = IF c = request[a].target THEN "settled" ELSE refunds[c][i].status
      BY <1>0, <1>2, <2>2, SetStatusRows DEF SettleWrite
    <2>5. TypeOK'
      BY <1>0, <2>1, <2>2, <2>3, <2>4 DEF TypeOK
    <2>6. RequestFits(a)'
      BY <2>1, IdleRequest DEF RequestFits, AtCommit, Refunding, At
    <2> QED BY <2>1, <2>3, <2>4, <2>5, <2>6, IdleRequest, KeepStep
  <1>3. CASE RequestFails(a)
    <2>1. /\ request' \in [Admins -> Request] /\ request'[a] = Idle /\ request[a].op # "cancel"
          /\ \A x \in Admins \ {a} : request'[x] = request[x]
          /\ UNCHANGED <<show, phase, booking, refunds, locked, gateway, owed, byHand, mishaps, between>>
      BY <1>0, <1>3, FinishStep DEF RequestFails
    <2>2. TypeOK'
      BY <1>0, <2>1 DEF TypeOK
    <2>3. RequestFits(a)'
      BY <2>1, IdleRequest DEF RequestFits, AtCommit, Refunding, At
    <2> QED BY <2>1, <2>2, <2>3, IdleRequest, KeepStep
  <1> QED BY <1>1, <1>2, <1>3 DEF ManuallySettleRefund

LEMMA ClockStep ==
  ASSUME CancellationsInv, TimePasses \/ UpdateShowStatuses
  PROVE  CancellationsInv'
  <1>1. UNCHANGED <<booking, refunds, request, locked, gateway, owed, byHand, mishaps, between>>
    BY DEF TimePasses, UpdateShowStatuses, serverVars, gatewayVars, historyVars
  <1>2. TypeOK'
    BY <1>1 DEF CancellationsInv, TypeOK, TimePasses, UpdateShowStatuses, ShowStatuses
  <1> QED BY <1>1, <1>2, KeepStep

(* A booking made while a cancellation is between its SELECT and COMMIT.   *)
LEMMA BookStep ==
  ASSUME CancellationsInv, NEW b \in Bookings, Book(b)
  PROVE  CancellationsInv'
  <1>0. TypeOK /\ \A x \in Admins : RequestFits(x)
    BY DEF CancellationsInv, RequestsFit
  <1>1. /\ UNCHANGED <<show, phase, refunds, request, locked, gateway, owed, byHand, mishaps>>
        /\ booking[b] = "none" /\ booking' = [booking EXCEPT ![b] = "confirmed"]
        /\ between' = IF b \in Paid /\ \E a \in Admins : AtCommit(a) THEN between \cup {b} ELSE between
    BY DEF Book, gatewayVars, AtCommit
  <1>2. /\ booking' \in [Bookings -> {"none", "confirmed", "cancelled"}]
        /\ booking'[b] = "confirmed" /\ \A c \in Bookings \ {b} : booking'[c] = booking[c]
    BY <1>0, <1>1 DEF TypeOK
  <1>3. Confirmed' = Confirmed \cup {b}
    BY <1>1, <1>2 DEF Confirmed
  <1>4. TypeOK'
    BY <1>0, <1>1, <1>2 DEF TypeOK, Bookings
  <1>5. RequestsFit'
    <2>1. ASSUME NEW a \in Admins PROVE RequestFits(a)'
      <3>1. \A c \in request[a].todo : c \in Bookings
        BY <1>0 DEF TypeOK, Request, Bookings
      <3> QED BY <1>0, <1>1, <1>2, <1>3, <3>1 DEF RequestFits, AtCommit, Refunding, At
    <2> QED BY <2>1 DEF RequestsFit
  <1>6. RefundedOnce' /\ SettledIsPaidBack' /\ EventsFit'
    BY <1>1 DEF CancellationsInv, RefundedOnce, SettledIsPaidBack, EventsFit
  <1>7. RefundRowsAreCancelled' /\ CancelledHasRefundRow'
    BY <1>1, <1>2 DEF CancellationsInv, RefundRowsAreCancelled, CancelledHasRefundRow, Bookings
  <1> QED BY <1>4, <1>5, <1>6, <1>7 DEF CancellationsInv

(* Razorpay ends a refund that was asked for, once.                        *)
LEMMA GatewayEndsStep ==
  ASSUME CancellationsInv, NEW b \in Paid, GatewayEnds(b)
  PROVE  CancellationsInv'
  <1>0. TypeOK /\ RequestsFit
    BY DEF CancellationsInv
  <1>1. PICK result \in {"processed", "failed"} :
          /\ gateway' = [gateway EXCEPT ![b] = result]
          /\ owed' = owed \cup {[kind |-> IF result = "processed" THEN "refund.processed" ELSE "refund.failed",
                                 booking |-> b]}
    BY DEF GatewayEnds
  <1>2. /\ UNCHANGED <<show, phase, booking, refunds, request, locked, byHand, mishaps, between>>
        /\ gateway[b] = "pending"
    BY DEF GatewayEnds, serverVars, historyVars
  <1> DEFINE e == [kind |-> IF result = "processed" THEN "refund.processed" ELSE "refund.failed", booking |-> b]
  <1>3. /\ e \in RefundEvent /\ e.booking = b
        /\ result = IF e.kind = "refund.processed" THEN "processed" ELSE "failed"
    BY DEF RefundEvent
  <1>4. owed' = owed \cup {e}
    BY <1>1
  <1> HIDE DEF e
  <1>5. /\ gateway' \in [Paid -> {"none", "pending", "processed", "failed"}]
        /\ gateway'[b] = result /\ \A c \in Paid \ {b} : gateway'[c] = gateway[c]
    BY <1>0, <1>1 DEF TypeOK
  <1>6. TypeOK'
    BY <1>0, <1>2, <1>3, <1>4, <1>5 DEF TypeOK
  <1>7. RequestsFit'
    BY <1>0, <1>2 DEF RequestsFit, RequestFits, AtCommit, Refunding, At, Confirmed
  <1>8. EventsFit'
    <2>1. ASSUME NEW f \in owed PROVE f.booking \in Paid /\ f.booking # b
      BY <1>0, <1>2 DEF TypeOK, RefundEvent, CancellationsInv, EventsFit
    <2> QED BY <1>3, <1>4, <1>5, <2>1 DEF CancellationsInv, EventsFit
  <1>9. RefundedOnce'
    <2>1. ASSUME NEW x \in Admins, NEW c \in request[x].todo PROVE c \in Paid \ {b} /\ gateway[c] = "none"
      BY <1>0, <1>2 DEF TypeOK, Request, CancellationsInv, RefundedOnce
    <2> QED BY <1>2, <1>5, <2>1 DEF CancellationsInv, RefundedOnce
  <1>10. RefundRowsAreCancelled' /\ SettledIsPaidBack' /\ CancelledHasRefundRow'
    BY <1>2, <1>5 DEF CancellationsInv, RefundRowsAreCancelled, SettledIsPaidBack, CancelledHasRefundRow
  <1> QED BY <1>6, <1>7, <1>8, <1>9, <1>10 DEF CancellationsInv

LEMMA RefundWebhookStep ==
  ASSUME CancellationsInv, NEW e \in RefundEvent, RefundWebhook(e) \/ RefundWebhookLost(e)
  PROVE  CancellationsInv'
  <1> USE DEF serverVars
  <1>0. TypeOK /\ e.booking \in Paid
    BY DEF CancellationsInv, RefundEvent
  <1>1. /\ UNCHANGED <<show, phase, booking, request, locked, gateway, byHand, between>>
        /\ e \in owed /\ owed' \subseteq owed
        /\ mishaps' \subseteq mishaps \cup {e.booking}
    BY DEF RefundWebhook, RefundWebhookLost
  <1>2. /\ refunds' \in [Paid -> Seq(RefundRow)]
        /\ \A c \in Paid : /\ DOMAIN refunds'[c] = DOMAIN refunds[c] /\ Len(refunds'[c]) = Len(refunds[c])
                           /\ refunds'[c] = << >> <=> refunds[c] = << >>
        /\ \A c \in Paid : \A i \in DOMAIN refunds[c] : refunds'[c][i].status = "settled" =>
             refunds[c][i].status = "settled" \/ gateway[c] = "processed"
    <2>1. CASE UNCHANGED refunds
      BY <1>0, <2>1 DEF TypeOK
    <2>2. CASE SetStatus(e.booking, "settled") /\ e.kind = "refund.processed"
      <3>1. gateway[e.booking] = "processed"
        BY <1>1, <2>2 DEF CancellationsInv, EventsFit
      <3> QED BY <1>0, <2>2, <3>1, SetStatusRows
    <2>3. CASE SetStatus(e.booking, "failed")
      BY <1>0, <2>3, SetStatusRows
    <2> QED BY <2>1, <2>2, <2>3 DEF RefundWebhook, RefundWebhookLost
  <1>3. TypeOK'
    BY <1>0, <1>1, <1>2 DEF TypeOK
  <1> QED BY <1>1, <1>2, <1>3, KeepStep

LEMMA CancellationsStep == CancellationsInv /\ [Next]_vars => CancellationsInv'
  <1> SUFFICES ASSUME CancellationsInv, [Next]_vars PROVE CancellationsInv'
    OBVIOUS
  <1>1. CASE UNCHANGED vars
    <2>1. UNCHANGED <<show, phase, booking, refunds, locked, request, gateway, owed, byHand, mishaps, between>>
      BY <1>1 DEF vars
    <2>2. TypeOK'
      BY <2>1 DEF CancellationsInv, TypeOK
    <2> QED BY <2>1, <2>2, KeepStep
  <1>2. ASSUME NEW a \in Admins, CancelShow(a) PROVE CancellationsInv'
    BY <1>2, CancelShowMoves, CancelShowSelectStep, CancelShowCommitStep, RefundCallStep, RefundUpdateStep
    DEF CancelShow
  <1>3. ASSUME NEW a \in Admins, UpdateShowBookingStatus(a) \/ ManuallySettleRefund(a) \/ RequestFails(a)
        PROVE  CancellationsInv'
    BY <1>3, UpdateShowBookingStatusStep, ManuallySettleRefundStep
  <1>4. CASE TimePasses \/ UpdateShowStatuses
    BY <1>4, ClockStep
  <1>5. ASSUME NEW b \in Bookings, Book(b) PROVE CancellationsInv'
    BY <1>5, BookStep
  <1>6. ASSUME NEW b \in Paid, GatewayEnds(b) PROVE CancellationsInv'
    BY <1>6, GatewayEndsStep
  <1>7. ASSUME NEW e \in RefundEvent, RefundWebhook(e) \/ RefundWebhookLost(e) PROVE CancellationsInv'
    BY <1>7, RefundWebhookStep
  <1> QED BY <1>1, <1>2, <1>3, <1>4, <1>5, <1>6, <1>7 DEF Next

LEMMA CancellationsInvariant == Spec => []CancellationsInv
  BY CancellationsInit, CancellationsStep, PTL DEF Spec

-----------------------------------------------------------------------------
(* The type invariant of shows, bookings, refunds and requests.            *)
THEOREM CancellationsTypeCorrect == Spec => []TypeOK
  <1>1. CancellationsInv => TypeOK
    BY DEF CancellationsInv
  <1> QED BY <1>1, CancellationsInvariant, PTL

(* A payment is refunded once, however cancelShow runs against itself,     *)
(* bulkCancelShows and a restore in between.                               *)
THEOREM PaymentIsRefundedOnce == Spec => []RefundedOnce
  <1>1. CancellationsInv => RefundedOnce
    BY DEF CancellationsInv
  <1> QED BY <1>1, CancellationsInvariant, PTL

(* A refund, asked for or on record, belongs to a cancelled booking.       *)
THEOREM RefundedBookingIsCancelled == Spec => []RefundRowsAreCancelled
  <1>1. CancellationsInv => RefundRowsAreCancelled
    BY DEF CancellationsInv
  <1> QED BY <1>1, CancellationsInvariant, PTL

(* Settled means that Razorpay has processed the refund, or that an admin  *)
(* has said so.                                                            *)
THEOREM SettledRefundIsPaidBack == Spec => []SettledIsPaidBack
  <1>1. CancellationsInv => SettledIsPaidBack
    BY DEF CancellationsInv
  <1> QED BY <1>1, CancellationsInvariant, PTL

(* A cancelled paid booking has its row of refunds, but for bookings made  *)
(* between the SELECT and the UPDATE of a cancellation.                    *)
THEOREM CancelledBookingIsRefunded == Spec => []CancelledHasRefundRow
  <1>1. CancellationsInv => CancelledHasRefundRow
    BY DEF CancellationsInv
  <1> QED BY <1>1, CancellationsInvariant, PTL

-----------------------------------------------------------------------------
(***************************************************************************)
(* Proofs about ShowOverlap, for any shows, writers and length of a day.   *)
(*                                                                         *)
(* The overlap trigger compares a new row with the rows its transaction    *)
(* sees.  The inductive invariant says so of the committed rows and of     *)
(* what every transaction sees (Fits), and that two transactions never     *)
(* write one row (OneWriter) and are known to have raced (RacesKnown).     *)
(***************************************************************************)
Fits(view) ==
  \A i, j \in Ids : /\ i # j /\ {i, j} \notin raced
                    /\ view[i] # NoSlot /\ view[j] # NoSlot
                    => ~Clashes(view[i], view[j])

OneWriter ==
  \A v, w \in Writers : \A i \in Ids : v # w => tx[v].rows[i] = NoSlot \/ tx[w].rows[i] = NoSlot

RacesKnown ==
  \A v, w \in Writers : \A i, j \in Ids :
    v # w /\ tx[v].rows[i] # NoSlot /\ tx[w].rows[j] # NoSlot => {i, j} \in raced

TimetableInv ==
  /\ ScreenTypeOK /\ OneWriter /\ RacesKnown
  /\ Fits(shows) /\ \A w \in Writers : Fits(Sees(w))

(* The trigger is even-handed. *)
LEMMA ClashesSymmetric ==
  ASSUME NEW x \in Slot, NEW y \in Slot
  PROVE  Clashes(x, y) <=> Clashes(y, x)
  <1>1. /\ x.start \in Nat /\ x.end \in Nat /\ x.date \in Nat
        /\ y.start \in Nat /\ y.end \in Nat /\ y.date \in Nat
    BY OverlapAssumption DEF Slot
  <1> QED BY <1>1 DEF Clashes, CrossesMidnight

LEMMA NoRowsType == NoRows \in [Ids -> Slot \cup {NoSlot}] /\ \A i \in Ids : NoRows[i] = NoSlot
  BY DEF NoRows

LEMMA TimetableInit == ScreenInit => TimetableInv
  <1> SUFFICES ASSUME ScreenInit PROVE TimetableInv
    OBVIOUS
  <1>1. /\ shows = NoRows /\ raced = {} /\ \A w \in Writers : tx[w] = NoTx
        /\ tx = [w \in Writers |-> NoTx]
    BY DEF ScreenInit
  <1>2. NoTx.kind = "none" /\ NoTx.rows = NoRows
        /\ NoTx \in [kind : {"none", "one", "many"}, rows : [Ids -> Slot \cup {NoSlot}]]
    BY NoRowsType DEF NoTx
  <1>3. ScreenTypeOK
    BY <1>1, <1>2, NoRowsType DEF ScreenTypeOK
  <1>4. OneWriter /\ RacesKnown
    BY <1>1, <1>2, NoRowsType DEF OneWriter, RacesKnown
  <1>5. Fits(shows) /\ \A w \in Writers : Fits(Sees(w))
    BY <1>1, <1>2, NoRowsType DEF Fits, Sees
  <1> QED BY <1>3, <1>4, <1>5 DEF TimetableInv

(* createShow, editShow, and one row of createMultipleShows.               *)
LEMMA WriteStep ==
  ASSUME TimetableInv, NEW w \in Writers, NEW i \in Ids, NEW x \in Slot,
         NEW kind \in {"one", "many"}, Write(w, i, x, kind)
  PROVE  TimetableInv'
  <1>1. /\ RowUnlocked(w, i) /\ TriggerAccepts(w, i, x) /\ UNCHANGED shows
        /\ tx' = [tx EXCEPT ![w] = [kind |-> kind, rows |-> [tx[w].rows EXCEPT ![i] = x]]]
        /\ raced' = raced \cup {{i, j} : j \in {k \in Ids : ~RowUnlocked(w, k)}}
    BY DEF Write
  <1>2. /\ ScreenTypeOK /\ x # NoSlot
        /\ tx \in [Writers -> [kind : {"none", "one", "many"}, rows : [Ids -> Slot \cup {NoSlot}]]]
    BY OverlapAssumption DEF TimetableInv, ScreenTypeOK
  <1> DEFINE rows == [tx[w].rows EXCEPT ![i] = x]
             new == [kind |-> kind, rows |-> rows]
  <1>3. rows \in [Ids -> Slot \cup {NoSlot}] /\ rows[i] = x /\ \A j \in Ids \ {i} : rows[j] = tx[w].rows[j]
    BY <1>2
  <1>4. /\ new \in [kind : {"none", "one", "many"}, rows : [Ids -> Slot \cup {NoSlot}]]
        /\ new.kind = kind /\ new.rows = rows
    BY <1>3
  <1>5. tx' = [tx EXCEPT ![w] = new]
    BY <1>1
  <1> HIDE DEF new, rows
  <1>6. /\ tx' \in [Writers -> [kind : {"none", "one", "many"}, rows : [Ids -> Slot \cup {NoSlot}]]]
        /\ tx'[w].kind = kind /\ tx'[w].rows = rows /\ \A v \in Writers \ {w} : tx'[v] = tx[v]
    BY <1>2, <1>4, <1>5
  <1>7. raced \subseteq raced' /\ raced' \subseteq {{k, j} : k, j \in Ids}
    BY <1>1, <1>2 DEF ScreenTypeOK
  <1>8. ScreenTypeOK'
    BY <1>1, <1>2, <1>6, <1>7 DEF ScreenTypeOK
  <1>9. OneWriter'
    BY <1>1, <1>3, <1>6 DEF TimetableInv, OneWriter, RowUnlocked
  <1>10. RacesKnown'
    <2>1. ASSUME NEW v \in Writers \ {w}, NEW j \in Ids, tx[v].rows[j] # NoSlot
          PROVE  {i, j} \in raced'
      BY <1>1, <2>1 DEF RowUnlocked
    <2>2. ASSUME NEW u \in Writers, NEW v \in Writers, NEW k \in Ids, NEW j \in Ids,
                 u # v, tx'[u].rows[k] # NoSlot, tx'[v].rows[j] # NoSlot
          PROVE  {k, j} \in raced'
      <3>1. CASE u = w /\ k = i
        BY <2>1, <2>2, <3>1, <1>6
      <3>2. CASE v = w /\ j = i
        <4>1. {i, k} \in raced'
          BY <2>1, <2>2, <3>2, <1>6
        <4> QED BY <3>2, <4>1
      <3>3. CASE ~(u = w /\ k = i) /\ ~(v = w /\ j = i)
        <4>1. tx'[u].rows[k] = tx[u].rows[k] /\ tx'[v].rows[j] = tx[v].rows[j]
          BY <3>3, <1>3, <1>6
        <4> QED BY <2>2, <4>1, <1>7 DEF TimetableInv, RacesKnown
      <3> QED BY <3>1, <3>2, <3>3
    <2> QED BY <2>2 DEF RacesKnown
  <1>11. Fits(shows)'
    BY <1>1, <1>7 DEF TimetableInv, Fits
  <1>12. ASSUME NEW v \in Writers \ {w} PROVE Fits(Sees(v))'
    <2>1. Sees(v)' = Sees(v)
      BY <1>1, <1>6 DEF Sees
    <2> QED BY <2>1, <1>7 DEF TimetableInv, Fits
  <1>13. Fits(Sees(w))'
    <2>1. Sees(w)'[i] = x /\ \A j \in Ids \ {i} : Sees(w)'[j] = Sees(w)[j]
      BY <1>1, <1>2, <1>3, <1>6 DEF Sees
    <2>2. \A j \in Ids : Sees(w)[j] \in Slot \cup {NoSlot}
      BY <1>2 DEF Sees, ScreenTypeOK
    <2>3. \A j \in Ids \ {i} : Sees(w)[j] # NoSlot => ~Clashes(x, Sees(w)[j]) /\ ~Clashes(Sees(w)[j], x)
      BY <1>1, <2>2, ClashesSymmetric DEF TriggerAccepts
    <2>4. ASSUME NEW j \in Ids, NEW k \in Ids, j # k, {j, k} \notin raced',
                 Sees(w)'[j] # NoSlot, Sees(w)'[k] # NoSlot
          PROVE  ~Clashes(Sees(w)'[j], Sees(w)'[k])
      <3>1. CASE j = i \/ k = i
        BY <2>1, <2>3, <2>4, <3>1
      <3>2. CASE j # i /\ k # i
        BY <2>1, <2>4, <3>2, <1>7 DEF TimetableInv, Fits
      <3> QED BY <3>1, <3>2
    <2> QED BY <2>4 DEF Fits
  <1> QED BY <1>8, <1>9, <1>10, <1>11, <1>12, <1>13 DEF TimetableInv

(* What a transaction has seen becomes what there is.                      *)
LEMMA CommitStep ==
  ASSUME TimetableInv, NEW w \in Writers, Commit(w)
  PROVE  TimetableInv'
  <1>1. shows' = Sees(w) /\ tx' = [tx EXCEPT ![w] = NoTx] /\ UNCHANGED raced
    BY DEF Commit, EndTx
  <1>2. /\ tx \in [Writers -> [kind : {"none", "one", "many"}, rows : [Ids -> Slot \cup {NoSlot}]]]
        /\ ScreenTypeOK
    BY DEF TimetableInv, ScreenTypeOK
  <1>3. NoTx.kind = "none" /\ NoTx.rows = NoRows
        /\ NoTx \in [kind : {"none", "one", "many"}, rows : [Ids -> Slot \cup {NoSlot}]]
    BY NoRowsType DEF NoTx
  <1>4. /\ tx' \in [Writers -> [kind : {"none", "one", "many"}, rows : [Ids -> Slot \cup {NoSlot}]]]
        /\ tx'[w] = NoTx /\ \A v \in Writers \ {w} : tx'[v] = tx[v]
    BY <1>1, <1>2, <1>3
  <1>5. Sees(w) \in [Ids -> Slot \cup {NoSlot}]
    BY <1>2 DEF Sees, ScreenTypeOK
  <1>6. ScreenTypeOK'
    BY <1>1, <1>2, <1>3, <1>4, <1>5 DEF ScreenTypeOK
  <1>7. OneWriter' /\ RacesKnown'
    BY <1>1, <1>3, <1>4, NoRowsType DEF TimetableInv, OneWriter, RacesKnown
  <1>8. Fits(shows)'
    BY <1>1 DEF TimetableInv, Fits
  <1>9. Fits(Sees(w))'
    <2>1. \A i \in Ids : Sees(w)'[i] = Sees(w)[i]
      BY <1>1, <1>3, <1>4, NoRowsType DEF Sees
    <2> QED BY <1>1, <2>1 DEF TimetableInv, Fits
  <1>10. ASSUME NEW v \in Writers \ {w} PROVE Fits(Sees(v))'
    <2>1. \A i \in Ids : Sees(v)'[i] = IF tx[v].rows[i] # NoSlot THEN tx[v].rows[i] ELSE Sees(w)[i]
      BY <1>1, <1>4 DEF Sees
    <2>2. ASSUME NEW i \in Ids, NEW j \in Ids, i # j, {i, j} \notin raced,
                 Sees(v)'[i] # NoSlot, Sees(v)'[j] # NoSlot
          PROVE  ~Clashes(Sees(v)'[i], Sees(v)'[j])
      <3>1. CASE tx[v].rows[i] = NoSlot /\ tx[v].rows[j] = NoSlot
        BY <2>1, <2>2, <3>1 DEF TimetableInv, Fits
      <3>2. CASE tx[v].rows[i] # NoSlot \/ tx[v].rows[j] # NoSlot
        <4>1. /\ tx[v].rows[i] # NoSlot => tx[w].rows[j] = NoSlot
              /\ tx[v].rows[j] # NoSlot => tx[w].rows[i] = NoSlot
          BY <2>2 DEF TimetableInv, RacesKnown
        <4>2. Sees(v)'[i] = Sees(v)[i] /\ Sees(v)'[j] = Sees(v)[j]
          BY <2>1, <3>2, <4>1 DEF Sees, TimetableInv, OneWriter
        <4> QED BY <2>2, <4>2 DEF TimetableInv, Fits
      <3> QED BY <3>1, <3>2
    <2> QED BY <1>1, <2>2 DEF Fits
  <1> QED BY <1>6, <1>7, <1>8, <1>9, <1>10 DEF TimetableInv

(* A pair is forgotten only when one of the two is gone from the view.     *)
LEMMA ForgetFits ==
  ASSUME NEW I \in SUBSET Ids, Forget(I), NEW old, NEW new, Fits(old),
         \A i \in Ids : new[i] = old[i] \/ new[i] = NoSlot,
         \A i \in I : new[i] = NoSlot
  PROVE  \A i, j \in Ids : /\ i # j /\ {i, j} \notin raced'
                           /\ new[i] # NoSlot /\ new[j] # NoSlot
                           => ~Clashes(new[i], new[j])
  <1> SUFFICES ASSUME NEW i \in Ids, NEW j \in Ids, i # j, {i, j} \notin raced',
                      new[i] # NoSlot, new[j] # NoSlot
               PROVE  ~Clashes(new[i], new[j])
    OBVIOUS
  <1>1. new[i] = old[i] /\ new[j] = old[j] /\ i \notin I /\ j \notin I
    OBVIOUS
  <1>2. {i, j} \notin raced
    BY <1>1 DEF Forget
  <1> QED BY <1>1, <1>2 DEF Fits

(* What a transaction wrote is gone with it: nobody else was writing it.   *)
LEMMA RollbackStep ==
  ASSUME TimetableInv, NEW w \in Writers, Rollback(w)
  PROVE  TimetableInv'
  <1> DEFINE I == {i \in Ids : tx[w].rows[i] # NoSlot /\ shows[i] = NoSlot}
  <1>1. UNCHANGED shows /\ tx' = [tx EXCEPT ![w] = NoTx] /\ Forget(I) /\ I \in SUBSET Ids
    BY DEF Rollback, EndTx
  <1>2. /\ tx \in [Writers -> [kind : {"none", "one", "many"}, rows : [Ids -> Slot \cup {NoSlot}]]]
        /\ ScreenTypeOK
    BY DEF TimetableInv, ScreenTypeOK
  <1>3. NoTx.kind = "none" /\ NoTx.rows = NoRows
        /\ NoTx \in [kind : {"none", "one", "many"}, rows : [Ids -> Slot \cup {NoSlot}]]
    BY NoRowsType DEF NoTx
  <1>4. /\ tx' \in [Writers -> [kind : {"none", "one", "many"}, rows : [Ids -> Slot \cup {NoSlot}]]]
        /\ tx'[w] = NoTx /\ \A v \in Writers \ {w} : tx'[v] = tx[v]
    BY <1>1, <1>2, <1>3
  <1>5. ScreenTypeOK'
    BY <1>1, <1>2, <1>3, <1>4 DEF ScreenTypeOK, Forget
  <1>6. OneWriter'
    BY <1>3, <1>4, NoRowsType DEF TimetableInv, OneWriter
  <1>7. \A v \in Writers \ {w} : \A i \in I : tx[v].rows[i] = NoSlot
    BY DEF TimetableInv, OneWriter
  <1> HIDE DEF I
  <1>8. RacesKnown'
    <2> SUFFICES ASSUME NEW u \in Writers, NEW v \in Writers, NEW i \in Ids, NEW j \in Ids,
                        u # v, tx'[u].rows[i] # NoSlot, tx'[v].rows[j] # NoSlot
                 PROVE  {i, j} \in raced'
      BY DEF RacesKnown
    <2>1. /\ u # w /\ v # w /\ tx'[u] = tx[u] /\ tx'[v] = tx[v]
      BY <1>3, <1>4, NoRowsType
    <2>2. {i, j} \in raced /\ {i, j} \cap I = {}
      BY <2>1, <1>7 DEF TimetableInv, RacesKnown
    <2> QED BY <2>2, <1>1 DEF Forget
  <1>9. Fits(shows)'
    <2>1. \A i \in I : shows[i] = NoSlot
      BY DEF I
    <2>2. Fits(shows)
      BY DEF TimetableInv
    <2> QED BY <1>1, <2>1, <2>2, ForgetFits DEF Fits
  <1>10. Fits(Sees(w))'
    <2>1. \A i \in Ids : Sees(w)'[i] = shows'[i]
      BY <1>3, <1>4, NoRowsType DEF Sees
    <2> QED BY <1>9, <2>1 DEF Fits
  <1>11. ASSUME NEW v \in Writers \ {w} PROVE Fits(Sees(v))'
    <2>1. Sees(v)' = Sees(v)
      BY <1>1, <1>4 DEF Sees
    <2>2. \A i \in I : Sees(v)[i] = NoSlot
      BY <1>7 DEF Sees, I
    <2>3. Fits(Sees(v))
      BY DEF TimetableInv
    <2> QED BY <1>1, <2>1, <2>2, <2>3, ForgetFits DEF Fits
  <1> QED BY <1>5, <1>6, <1>8, <1>9, <1>10, <1>11 DEF TimetableInv

(* A row that is deleted was being written by nobody.                      *)
LEMMA DeleteStep ==
  ASSUME TimetableInv, NEW d \in Ids, DeleteShow(d)
  PROVE  TimetableInv'
  <1>1. /\ shows' = [shows EXCEPT ![d] = NoSlot] /\ UNCHANGED tx /\ Forget({d})
        /\ \A v \in Writers : tx[v].rows[d] = NoSlot
    BY DEF DeleteShow
  <1>2. ScreenTypeOK
    BY DEF TimetableInv
  <1>3. /\ shows' \in [Ids -> Slot \cup {NoSlot}] /\ shows'[d] = NoSlot
        /\ \A i \in Ids \ {d} : shows'[i] = shows[i]
    BY <1>1, <1>2 DEF ScreenTypeOK
  <1>4. ScreenTypeOK'
    BY <1>1, <1>2, <1>3 DEF ScreenTypeOK, Forget
  <1>5. OneWriter'
    BY <1>1 DEF TimetableInv, OneWriter
  <1>6. RacesKnown'
    <2> SUFFICES ASSUME NEW u \in Writers, NEW v \in Writers, NEW i \in Ids, NEW j \in Ids,
                        u # v, tx[u].rows[i] # NoSlot, tx[v].rows[j] # NoSlot
                 PROVE  {i, j} \in raced'
      BY <1>1 DEF RacesKnown
    <2>1. {i, j} \in raced /\ {i, j} \cap {d} = {}
      BY <1>1 DEF TimetableInv, RacesKnown
    <2> QED BY <2>1, <1>1 DEF Forget
  <1>7. Fits(shows)'
    <2>1. Fits(shows) /\ \A i \in Ids : shows'[i] = shows[i] \/ shows'[i] = NoSlot
      BY <1>3 DEF TimetableInv
    <2>2. {d} \in SUBSET Ids /\ \A i \in {d} : shows'[i] = NoSlot
      BY <1>3
    <2> QED BY <1>1, <2>1, <2>2, ForgetFits DEF Fits
  <1>8. ASSUME NEW v \in Writers PROVE Fits(Sees(v))'
    <2>1. Sees(v)'[d] = NoSlot /\ \A i \in Ids \ {d} : Sees(v)'[i] = Sees(v)[i]
      BY <1>1, <1>3 DEF Sees
    <2>2. /\ Fits(Sees(v)) /\ \A i \in Ids : Sees(v)'[i] = Sees(v)[i] \/ Sees(v)'[i] = NoSlot
          /\ {d} \in SUBSET Ids /\ \A i \in {d} : Sees(v)'[i] = NoSlot
      BY <2>1 DEF TimetableInv
    <2> QED BY <1>1, <2>2, ForgetFits DEF Fits
  <1> QED BY <1>4, <1>5, <1>6, <1>7, <1>8 DEF TimetableInv

LEMMA TimetableStep == TimetableInv /\ [ScreenNext]_screenVars => TimetableInv'
  <1> SUFFICES ASSUME TimetableInv, [ScreenNext]_screenVars PROVE TimetableInv'
    OBVIOUS
  <1>1. CASE \E w \in Writers : Commit(w)
    BY <1>1, CommitStep
  <1>2. CASE \E w \in Writers : Rollback(w)
    BY <1>2, RollbackStep
  <1>3. CASE \E w \in Writers, i \in Ids, x \in Slot :
               CreateShow(w, i, x) \/ EditShow(w, i, x) \/ CreateMultipleShows(w, i, x)
    <2>1. PICK w \in Writers, i \in Ids, x \in Slot, kind \in {"one", "many"} : Write(w, i, x, kind)
      BY <1>3 DEF CreateShow, EditShow, CreateMultipleShows
    <2> QED BY <2>1, WriteStep
  <1>4. CASE \E i \in Ids : DeleteShow(i)
    BY <1>4, DeleteStep
  <1>5. CASE UNCHANGED screenVars
    BY <1>5 DEF screenVars, TimetableInv, ScreenTypeOK, OneWriter, RacesKnown, Fits, Sees
  <1> QED BY <1>1, <1>2, <1>3, <1>4, <1>5 DEF ScreenNext

-----------------------------------------------------------------------------
(* A day later is at least a day's length later.                           *)
LEMMA LaterDay ==
  ASSUME NEW d \in Nat, NEW e \in Nat, d < e
  PROVE  d * SlotsPerDay + SlotsPerDay <= e * SlotsPerDay
  <1>1. SlotsPerDay \in Nat
    BY OverlapAssumption
  <1>2. e = d + 1 + (e - d - 1) /\ e - d - 1 \in Nat
    OBVIOUS
  <1>3. \A k, m, n \in Nat : (k + 1 + m) * n = k * n + n + m * n /\ m * n \in Nat
    OBVIOUS
  <1>4. PICK m \in Nat : e = d + 1 + m
    BY <1>2
  <1>5. e * SlotsPerDay = d * SlotsPerDay + SlotsPerDay + m * SlotsPerDay
    BY <1>1, <1>3, <1>4
  <1>6. d * SlotsPerDay \in Nat /\ m * SlotsPerDay \in Nat
    BY <1>1, <1>3
  <1> QED BY <1>1, <1>5, <1>6

(* Shows that end on their own day and overlap are refused as a pair.      *)
LEMMA OverlapClashes ==
  ASSUME NEW x \in Slot, NEW y \in Slot, ~CrossesMidnight(x), ~CrossesMidnight(y), Overlap(x, y)
  PROVE  Clashes(x, y)
  <1>1. /\ x.start \in 0 .. SlotsPerDay - 1 /\ x.end \in 0 .. SlotsPerDay - 1 /\ x.date \in Nat
        /\ y.start \in 0 .. SlotsPerDay - 1 /\ y.end \in 0 .. SlotsPerDay - 1 /\ y.date \in Nat
        /\ SlotsPerDay \in Nat
    BY OverlapAssumption DEF Slot
  <1> DEFINE p == x.date * SlotsPerDay
             q == y.date * SlotsPerDay
  <1>2. p \in Nat /\ q \in Nat
    BY <1>1
  <1>3. /\ x.date < y.date => p + SlotsPerDay <= q
        /\ y.date < x.date => q + SlotsPerDay <= p
    BY <1>1, LaterDay
  <1>4. p + x.start < q + y.end /\ q + y.start < p + x.end
    BY <1>1, <1>2 DEF Overlap, From, Until
  <1> HIDE DEF p, q
  <1>5. x.date = y.date
    BY <1>1, <1>2, <1>3, <1>4
  <1>6. x.start < y.end /\ y.start < x.end
    <2>1. p = q
      BY <1>5 DEF p, q
    <2> QED BY <1>1, <1>2, <1>4, <2>1
  <1> QED BY <1>5, <1>6 DEF Clashes

LEMMA TimetableInvariant == ScreenSpec => []TimetableInv
  BY TimetableInit, TimetableStep, PTL DEF ScreenSpec

(* Every row and every transaction keeps its type.                         *)
THEOREM TimetableTypeCorrect == ScreenSpec => []ScreenTypeOK
  <1>1. TimetableInv => ScreenTypeOK
    BY DEF TimetableInv
  <1> QED BY <1>1, TimetableInvariant, PTL

(* Whatever the writers do, the trigger still accepts every two rows that  *)
(* were not written in transactions that overlapped.                       *)
THEOREM AcceptedRowsStayAcceptable == ScreenSpec => []RowsCanBeUpdated
  <1>1. TimetableInv => RowsCanBeUpdated
    BY DEF TimetableInv, Fits, RowsCanBeUpdated, OnScreen
  <1> QED BY <1>1, TimetableInvariant, PTL

(* No two shows of one day are on the screen at once, unless the           *)
(* transactions that wrote them overlapped.                                *)
THEOREM DayShowsAreDisjoint == ScreenSpec => []DaytimeDisjoint
  <1>1. TimetableInv => DaytimeDisjoint
    <2> SUFFICES ASSUME TimetableInv, NEW i \in OnScreen, NEW j \in OnScreen,
                        i # j, {i, j} \notin raced,
                        ~CrossesMidnight(shows[i]), ~CrossesMidnight(shows[j]),
                        Overlap(shows[i], shows[j])
                 PROVE  FALSE
      BY DEF DaytimeDisjoint
    <2>1. shows[i] \in Slot /\ shows[j] \in Slot /\ i \in Ids /\ j \in Ids
      BY DEF OnScreen, TimetableInv, ScreenTypeOK
    <2>2. ~Clashes(shows[i], shows[j])
      BY <2>1, OverlapAssumption DEF TimetableInv, Fits, OnScreen
    <2> QED BY <2>1, <2>2, OverlapClashes
  <1> QED BY <1>1, TimetableInvariant, PTL

==============================================================================
