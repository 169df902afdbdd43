---------------------------- MODULE SeatLocking ----------------------------
(***************************************************************************)
(* The seat endpoints of booking.Controller.js for one show, one SQL       *)
(* statement at a time.  Each request runs on a connection of the pool:    *)
(* holdSeats and confirmBooking as a BEGIN ... COMMIT transaction that     *)
(* visits the seats in the order of the request with SELECT ... FOR        *)
(* UPDATE, releaseSeats and cleanupExpiredHolds as one DELETE statement.   *)
(*                                                                         *)
(* What PostgreSQL does with those statements is modelled from how the     *)
(* code relies on it, at READ COMMITTED:                                   *)
(*   - FOR UPDATE, and a DELETE, wait for a row another transaction has    *)
(*     locked, and then see the row as that transaction left it;           *)
(*   - FOR UPDATE finds no row, and locks nothing, where the only row is   *)
(*     the uncommitted insert of another transaction;                      *)
(*   - INSERT ... ON CONFLICT DO NOTHING waits for a transaction that has  *)
(*     written the key and not finished, then inserts or does nothing;     *)
(*   - a transaction that waits on a cycle is aborted;                     *)
(*   - any statement may fail, which the handlers answer with ROLLBACK.    *)
(* A transaction's writes are the seats in its field "got": they become    *)
(* visible in the commit step.                                             *)
(***************************************************************************)
EXTENDS Naturals, Sequences, FiniteSets

CONSTANTS Customers, Seats, NoCustomer, NoPayment,
          Conns,        \* connections of the pg pool
          NoConn,       \* "this row is not locked"
          SeatLists,    \* the seat lists requests send, in their order
          HoldTicks,    \* HOLD_DURATION_MINUTES, in ticks of the clock
          MaxClock      \* bound: the clock stops here

ASSUME LockingAssumption ==
  /\ NoCustomer \notin Customers
  /\ NoConn \notin Conns
  /\ IsFiniteSet(Seats)
  /\ SeatLists \subseteq Seq(Seats) \ {<< >>}
  /\ HoldTicks \in Nat \ {0}
  /\ MaxClock \in Nat

VARIABLES clock,        \* the wall clock
          row,          \* committed rows of show_booked_seats
          bookings,     \* committed rows of bookings
          lock,         \* seat -> the connection whose transaction has its row locked
          tx            \* connection -> the request it runs

vars == <<clock, row, bookings, lock, tx>>

-----------------------------------------------------------------------------
Times == 0 .. MaxClock + HoldTicks
ListSeats(q) == {q[i] : i \in DOMAIN q}
Orders(S) == {q \in [1 .. Cardinality(S) -> S] : ListSeats(q) = S}

NoRow == [status |-> "ABSENT", by |-> NoCustomer, until |-> 0]
OpenRow == [status |-> "AVAILABLE", by |-> NoCustomer, until |-> 0]
(* A mistake TypeOK catches: the duration is added a second time. *)
HeldRowTwice(c, t) == [status |-> "HELD", by |-> c, until |-> t + HoldTicks]
HeldRow(c, t) == [status |-> "HELD", by |-> c, until |-> t]
BookedRow(c) == [status |-> "BOOKED", by |-> c, until |-> 0]

SeatRow == [status : {"ABSENT", "AVAILABLE", "HELD", "BOOKED"},
            by : Customers \cup {NoCustomer}, until : Times]

Booking == [who : Customers, seats : SUBSET Seats, pay : {NoPayment}]

(* A request: its kind, customer, the list of seats it goes through, those *)
(* of the list still to visit, the seats it asked for, those it has        *)
(* secured, whether one of them was unavailable, and the instant it read   *)
(* the clock.                                                              *)
Request(kind, who, list, t) ==
  [kind |-> kind, who |-> who, list |-> list, todo |-> list, asked |-> ListSeats(list),
   got |-> {}, bad |-> FALSE, at |-> t, step |-> "select"]

Idle == Request("idle", NoCustomer, << >>, 0)

TxType ==
  [kind : {"idle", "hold", "confirm", "release", "cleanup"},
   who : Customers \cup {NoCustomer}, list : Seq(Seats), todo : Seq(Seats),
   asked : SUBSET Seats, got : SUBSET Seats, bad : BOOLEAN, at : 0 .. MaxClock, step : {"select", "insert"}]

Init == /\ clock = 0
        /\ row \in [Seats -> {NoRow, OpenRow}]
        /\ bookings = << >>
        /\ lock = [s \in Seats |-> NoConn]
        /\ tx = [k \in Conns |-> Idle]

-----------------------------------------------------------------------------
(* Statements.  The row connection k sees for s: its own write, or the     *)
(* committed row.  Only holdSeats reads a seat again after writing it,     *)
(* when a list names the seat twice.                                       *)
Seen(k, s) == IF tx[k].kind = "hold" /\ s \in tx[k].got
              THEN HeldRow(tx[k].who, tx[k].at + HoldTicks)
              ELSE row[s]

Next1(k) == Head(tx[k].todo)
LockedByOther(k, s) == lock[s] \notin {NoConn, k}

(* A mistake ImplementsLedger catches: a live hold counts as available. *)
IsAvailableThoughHeld(r) == r.status \in {"AVAILABLE", "HELD"}

(* A mistake BookedMatchesBookings catches: only a live hold is refused. *)
IsAvailableUnlessHeld(r) == r.status = "HELD" => r.until < clock

(* booking.Controller.js:61-63 *)
IsAvailable(r) == \/ r.status = "AVAILABLE"
                  \/ r.status = "HELD" /\ r.until < clock

(* A mistake SeatSoldOnce catches: a seat already BOOKED passes. *)
ConfirmableAnyStatus(r, c, t) == r.by = c /\ ~(r.until < t)

(* The checks of confirmBooking, one throw each. *)
Confirmable(r, c, t) == r.status = "HELD" /\ r.by = c /\ ~(r.until < t)

(* The WHERE clauses of the two DELETE statements. *)
Matches(req, s) == /\ row[s].status = "HELD"
                   /\ \/ req.kind = "release" /\ s \in req.asked /\ row[s].by = req.who
                      \/ req.kind = "cleanup" /\ row[s].until < req.at

Waits(k) ==
  /\ tx[k].todo # << >>
  /\ LockedByOther(k, Next1(k))
  /\ IF tx[k].kind = "hold" /\ tx[k].step = "insert"
     THEN Next1(k) \in tx[lock[Next1(k)]].got /\ tx[lock[Next1(k)]].kind # "confirm"
     ELSE row[Next1(k)].status # "ABSENT"

(* A mistake SecuredStaysTrue catches: SELECT without FOR UPDATE. *)
TakeWithoutLock(k, s) == lock' = lock

Take(k, s) == lock' = [lock EXCEPT ![s] = k]
Unlock(k) == lock' = [s \in Seats |-> IF lock[s] = k THEN NoConn ELSE lock[s]]

Advance(k, seats, failed, step) ==
  tx' = [tx EXCEPT ![k].todo = Tail(@), ![k].got = @ \cup seats,
                   ![k].bad = @ \/ failed, ![k].step = step]

(* ROLLBACK, whatever its reason: an unavailable seat, a check that threw, *)
(* a statement that failed, a deadlock victim.                             *)
Rollback(k) == /\ Unlock(k)
               /\ tx' = [tx EXCEPT ![k] = Idle]
               /\ UNCHANGED <<clock, row, bookings>>

Commit(k, r) == /\ row' = [s \in Seats |-> IF s \in tx[k].got THEN r ELSE row[s]]
                /\ Unlock(k)
                /\ tx' = [tx EXCEPT ![k] = Idle]
                /\ UNCHANGED clock

Begin(k, req) == /\ tx[k] = Idle
                 /\ tx' = [tx EXCEPT ![k] = req]
                 /\ UNCHANGED <<clock, row, bookings, lock>>

-----------------------------------------------------------------------------
(* holdSeats *)

HoldSeatsBegin(k) ==
  \E c \in Customers, q \in SeatLists : Begin(k, Request("hold", c, q, clock))

(* SELECT ... FOR UPDATE, then the availability test and the UPDATE: the   *)
(* row is locked in between, so nothing can come between them.             *)
HoldSeatsSelect(k) ==
  LET s == Next1(k) IN
  /\ tx[k].kind = "hold" /\ tx[k].step = "select" /\ tx[k].todo # << >>
  /\ ~Waits(k)
  /\ IF Seen(k, s).status = "ABSENT"
     THEN /\ tx' = [tx EXCEPT ![k].step = "insert"]
          /\ UNCHANGED lock
     ELSE /\ Take(k, s)
          /\ IF IsAvailable(Seen(k, s)) THEN Advance(k, {s}, FALSE, "select")
                                        ELSE Advance(k, {}, TRUE, "select")
  /\ UNCHANGED <<clock, row, bookings>>

(* INSERT ... ON CONFLICT (show_id, seat_id) DO NOTHING. *)
HoldSeatsInsert(k) ==
  LET s == Next1(k) IN
  /\ tx[k].kind = "hold" /\ tx[k].step = "insert"
  /\ ~Waits(k)
  /\ IF row[s].status = "ABSENT"
     THEN Take(k, s) /\ Advance(k, {s}, FALSE, "select")
     ELSE Advance(k, {}, TRUE, "select") /\ UNCHANGED lock
  /\ UNCHANGED <<clock, row, bookings>>

(* A mistake AllOrNothing catches: the seats that were free are kept. *)
HoldSeatsCommitFound(k) ==
  /\ tx[k].kind = "hold" /\ tx[k].todo = << >>
  /\ Commit(k, HeldRow(tx[k].who, tx[k].at + HoldTicks))
  /\ UNCHANGED bookings

HoldSeatsCommit(k) ==
  /\ tx[k].kind = "hold" /\ tx[k].todo = << >> /\ ~tx[k].bad
  /\ Commit(k, HeldRow(tx[k].who, tx[k].at + HoldTicks))
  /\ UNCHANGED bookings

(* 409: any failed seat undoes all of them. *)
HoldSeatsConflict(k) ==
  /\ tx[k].kind = "hold" /\ tx[k].todo = << >> /\ tx[k].bad
  /\ Rollback(k)

-----------------------------------------------------------------------------
(* confirmBooking *)

(* A mistake SameOrderNoDeadlock catches: the list is taken from its end,  *)
(* so that holdSeats and confirmBooking lock the same list in two orders.  *)
ConfirmBookingBeginLast(k) ==
  \E c \in Customers, q \in SeatLists :
    Begin(k, [Request("confirm", c, q, clock)
                EXCEPT !.todo = [i \in DOMAIN q |-> q[Len(q) + 1 - i]]])

ConfirmBookingBegin(k) ==
  \E c \in Customers, q \in SeatLists : Begin(k, Request("confirm", c, q, clock))

ConfirmBookingCheck(k) ==
  LET s == Next1(k) IN
  /\ tx[k].kind = "confirm" /\ tx[k].todo # << >>
  /\ ~Waits(k)
  /\ IF Confirmable(row[s], tx[k].who, tx[k].at)
     THEN /\ Take(k, s)
          /\ Advance(k, {s}, FALSE, "select")
          /\ UNCHANGED <<clock, row, bookings>>
     ELSE Rollback(k)

ConfirmBookingCommit(k) ==
  /\ tx[k].kind = "confirm" /\ tx[k].todo = << >>
  /\ Commit(k, BookedRow(tx[k].who))
  /\ bookings' = Append(bookings, [who |-> tx[k].who, seats |-> tx[k].asked, pay |-> NoPayment])

-----------------------------------------------------------------------------
(* releaseSeats and cleanupExpiredHolds: a DELETE visits, in any order,    *)
(* the rows that matched when it started, and skips one that no longer     *)
(* matches once its lock is free.                                          *)

DeleteBegin(k, req) ==
  LET found == {s \in Seats : Matches(req, s)} IN
  /\ found # {}
  /\ \E q \in Orders(found) : Begin(k, [req EXCEPT !.list = q, !.todo = q])

ReleaseSeatsBegin(k) ==
  \E c \in Customers, q \in SeatLists : DeleteBegin(k, Request("release", c, q, clock))

CleanupExpiredHoldsBegin(k) == DeleteBegin(k, Request("cleanup", NoCustomer, << >>, clock))

DeleteVisit(k) ==
  LET s == Next1(k) IN
  /\ tx[k].kind \in {"release", "cleanup"} /\ tx[k].todo # << >>
  /\ ~Waits(k)
  /\ IF Matches(tx[k], s) THEN Take(k, s) /\ Advance(k, {s}, FALSE, "select")
                           ELSE Advance(k, {}, FALSE, "select") /\ UNCHANGED lock
  /\ UNCHANGED <<clock, row, bookings>>

DeleteCommit(k) ==
  /\ tx[k].kind \in {"release", "cleanup"} /\ tx[k].todo = << >>
  /\ Commit(k, NoRow)
  /\ UNCHANGED bookings

-----------------------------------------------------------------------------
(* PostgreSQL *)

BlockerOf(k) == lock[Next1(k)]

(* k waits on a cycle: some set of waiting connections, k among them,      *)
(* whose blockers are exactly the set itself.                              *)
Deadlocked(k) ==
  \E K \in SUBSET Conns : /\ k \in K
                          /\ \A j \in K : Waits(j)
                          /\ {BlockerOf(j) : j \in K} = K

DeadlockAbort(k) == Deadlocked(k) /\ Rollback(k)

StatementFails(k) == tx[k] # Idle /\ Rollback(k)

Tick == /\ clock < MaxClock
        /\ clock' = clock + 1
        /\ UNCHANGED <<row, bookings, lock, tx>>

-----------------------------------------------------------------------------
Arrive(k) == \/ HoldSeatsBegin(k) \/ ConfirmBookingBegin(k)
             \/ ReleaseSeatsBegin(k) \/ CleanupExpiredHoldsBegin(k)

Proceed(k) == \/ HoldSeatsSelect(k) \/ HoldSeatsInsert(k)
              \/ HoldSeatsCommit(k) \/ HoldSeatsConflict(k)
              \/ ConfirmBookingCheck(k) \/ ConfirmBookingCommit(k)
              \/ DeleteVisit(k) \/ DeleteCommit(k)

Next == \/ Tick
        \/ \E k \in Conns : Arrive(k) \/ Proceed(k) \/ DeadlockAbort(k) \/ StatementFails(k)

Spec == Init /\ [][Next]_vars

-----------------------------------------------------------------------------
TypeOK == /\ clock \in 0 .. MaxClock
          /\ row \in [Seats -> SeatRow]
          /\ bookings \in Seq(Booking)
          /\ lock \in [Seats -> Conns \cup {NoConn}]
          /\ tx \in [Conns -> TxType]

(* No two committed bookings share a seat, however the statements of       *)
(* confirmBooking and holdSeats interleave (booking.Controller.js:137-174).*)
SeatSoldOnce ==
  \A i, j \in DOMAIN bookings : i # j => bookings[i].seats \cap bookings[j].seats = {}

(* A seat shows as BOOKED for a customer exactly when a booking of that    *)
(* customer lists it: no hold, clean-up or late commit takes a sold seat   *)
(* back, and no request leaves a seat BOOKED without its booking.          *)
BookedMatchesBookings ==
  /\ \A s \in Seats : row[s].status = "BOOKED" =>
       \E i \in DOMAIN bookings : s \in bookings[i].seats /\ bookings[i].who = row[s].by
  /\ \A i \in DOMAIN bookings : \A s \in bookings[i].seats :
       row[s].status = "BOOKED" /\ row[s].by = bookings[i].who

(* What a transaction decided about a seat stays true until it commits:    *)
(* the seats a hold took are still takeable, those a confirm checked are   *)
(* still held by its customer, those a DELETE chose still match.  This is  *)
(* the reason the handlers lock before they look.                          *)
Secured(k, s) ==
  /\ lock[s] = k
  /\ tx[k].kind = "hold" => row[s].status = "ABSENT" \/ IsAvailable(row[s])
  /\ tx[k].kind = "confirm" => Confirmable(row[s], tx[k].who, tx[k].at)
  /\ tx[k].kind \in {"release", "cleanup"} => Matches(tx[k], s)

SecuredStaysTrue == \A k \in Conns : \A s \in tx[k].got : Secured(k, s)

(* A hold or a confirmation ends either with every seat it asked for in    *)
(* its customer's hands, or with the table as it found it, also when a     *)
(* list names a seat twice, a seat is taken half way, a statement fails or *)
(* the request is a deadlock victim.                                       *)
AllOrNothing ==
  [][\A k \in Conns : tx[k].kind \in {"hold", "confirm"} /\ tx'[k].kind = "idle" =>
       \/ row' = row
       \/ \A s \in tx[k].asked : row'[s].by = tx[k].who]_vars

(* Requests whose lists name the seats in one common order are never       *)
(* deadlock victims: every handler locks its seats in the order of its     *)
(* list, and none goes back for a row it has passed                        *)
(* (booking.Controller.js:29, 135).  Only lists in different orders, which *)
(* nothing in the handlers sorts, can deadlock.                            *)
Ranks == {r \in [Seats -> 1 .. Cardinality(Seats)] : \A s, t \in Seats : r[s] = r[t] => s = t}

InOrder(r, q) == \A i, j \in DOMAIN q : i < j => r[q[i]] <= r[q[j]]

SameOrderNoDeadlock ==
  (\E r \in Ranks : \A k \in Conns : InOrder(r, tx[k].list)) => \A k \in Conns : ~Deadlocked(k)

(* The statements, taken together, implement the atomic seat operations of *)
(* SeatLedger: a hold has lapsed when the clock is past its expiry.        *)
Ledger == INSTANCE SeatLedger WITH
  row <- [s \in Seats |-> [status |-> row[s].status, by |-> row[s].by,
                           lapsed |-> row[s].status = "HELD" /\ row[s].until < clock]]

ImplementsLedger == Ledger!LedgerSpec
=============================================================================
