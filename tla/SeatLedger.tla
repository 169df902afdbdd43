----------------------------- MODULE SeatLedger -----------------------------
(***************************************************************************)
(* The promise that the seat endpoints of booking.Controller.js make for   *)
(* one show: every request takes effect at one instant and either on all   *)
(* of its seats or on none.  The state is the table show_booked_seats      *)
(* restricted to the show, and the rows of bookings for it.                *)
(*                                                                         *)
(* Time is abstracted to one bit per hold, "lapsed": hold_expires_at has   *)
(* passed.  SeatLocking.tla gives the same endpoints statement by          *)
(* statement, with row locks and a clock, and is shown to implement this   *)
(* module; Payments.tla builds the payment flow on top of it.              *)
(***************************************************************************)
EXTENDS Naturals, Sequences, FiniteSets

CONSTANTS Customers,    \* customers.id
          Seats,        \* seat ids of the show's screen
          NoCustomer,   \* held_by IS NULL
          NoPayment     \* payment_id IS NULL

ASSUME CustomerAssumption == NoCustomer \notin Customers

VARIABLES row,          \* seat -> its row of show_booked_seats
          bookings      \* the bookings rows of the show, in insertion order

ledgerVars == <<row, bookings>>

-----------------------------------------------------------------------------
(* Rows.  "ABSENT" stands for "there is no row", which the code treats     *)
(* like AVAILABLE.                                                         *)

Statuses == {"ABSENT", "AVAILABLE", "HELD", "BOOKED"}

SeatRow == [status : Statuses, by : Customers \cup {NoCustomer}, lapsed : BOOLEAN]

NoRow == [status |-> "ABSENT", by |-> NoCustomer, lapsed |-> FALSE]
OpenRow == [status |-> "AVAILABLE", by |-> NoCustomer, lapsed |-> FALSE]
HeldRow(c, late) == [status |-> "HELD", by |-> c, lapsed |-> late]
BookedRow(c) == [status |-> "BOOKED", by |-> c, lapsed |-> FALSE]

Booking == [who : Customers, seats : SUBSET Seats, pay : {NoPayment}]

(* A hold request may take a seat nobody has, or one whose hold lapsed. *)
Takeable(r) == \/ r.status \in {"ABSENT", "AVAILABLE"}
               \/ r.status = "HELD" /\ r.lapsed

HeldBy(r, c) == r.status = "HELD" /\ r.by = c

(* The seats of S replaced by the row r, the others as they are. *)
With(S, r) == [s \in Seats |-> IF s \in S THEN r ELSE row[s]]

-----------------------------------------------------------------------------
LedgerInit == /\ row \in [Seats -> {NoRow, OpenRow}]
              /\ bookings = << >>

(* holdSeats: all the seats or none.  A request that was slow to commit    *)
(* may leave a hold that has already lapsed.                               *)
HoldSeats(c, S) ==
  /\ S # {}
  /\ \A s \in S : Takeable(row[s])
  /\ \E late \in BOOLEAN : row' = With(S, HeldRow(c, late))
  /\ UNCHANGED bookings

(* confirmBooking.  Its expiry test uses the instant the request began, so *)
(* a hold may lapse while the request waits for a lock and still be        *)
(* confirmed; what it cannot do is confirm a seat it no longer holds.      *)
ConfirmBooking(c, S) ==
  /\ S # {}
  /\ \A s \in S : HeldBy(row[s], c)
  /\ row' = With(S, BookedRow(c))
  /\ bookings' = Append(bookings, [who |-> c, seats |-> S, pay |-> NoPayment])

(* releaseSeats and cleanupExpiredHolds: one DELETE statement each, which  *)
(* may touch no row at all.                                                *)
ReleaseSeats(c, S) ==
  /\ \A s \in S : HeldBy(row[s], c)
  /\ row' = With(S, NoRow)
  /\ UNCHANGED bookings

CleanupExpiredHolds(S) ==
  /\ \A s \in S : row[s].status = "HELD" /\ row[s].lapsed
  /\ row' = With(S, NoRow)
  /\ UNCHANGED bookings

(* Time passes: the holds of S, none of them lapsed yet, reach their       *)
(* hold_expires_at.                                                        *)
Lapse(S) ==
  /\ S # {}
  /\ \A s \in S : row[s].status = "HELD" /\ ~row[s].lapsed
  /\ row' = [s \in Seats |-> IF s \in S THEN HeldRow(row[s].by, TRUE) ELSE row[s]]
  /\ UNCHANGED bookings

LedgerNext ==
  \E S \in SUBSET Seats :
    \/ \E c \in Customers : HoldSeats(c, S) \/ ConfirmBooking(c, S) \/ ReleaseSeats(c, S)
    \/ CleanupExpiredHolds(S)
    \/ Lapse(S)

LedgerSpec == LedgerInit /\ [][LedgerNext]_ledgerVars

-----------------------------------------------------------------------------
(* Rows carry a holder exactly when they are HELD or BOOKED, and only a    *)
(* hold can be lapsed; bookings name seats of the show.                    *)
LedgerTypeOK ==
  /\ row \in [Seats -> SeatRow]
  /\ \A s \in Seats : /\ row[s].status \in {"HELD", "BOOKED"} <=> row[s].by # NoCustomer
                      /\ row[s].lapsed => row[s].status = "HELD"
  /\ bookings \in Seq(Booking)

(* No seat is in two bookings: the double booking that the row locks and   *)
(* UNIQUE (show_id, seat_id) are there to prevent (psql.sql:163).          *)
SeatSoldOnce ==
  \A i, j \in DOMAIN bookings : i # j => bookings[i].seats \cap bookings[j].seats = {}

(* A seat shows as BOOKED for a customer exactly when a booking of that    *)
(* customer lists it: the seat map and the booking list never disagree.    *)
BookedMatchesBookings ==
  /\ \A s \in Seats : row[s].status = "BOOKED" =>
       \E i \in DOMAIN bookings : s \in bookings[i].seats /\ bookings[i].who = row[s].by
  /\ \A i \in DOMAIN bookings : \A s \in bookings[i].seats :
       row[s] = BookedRow(bookings[i].who)

(* Nobody can lose a booked seat: no hold, release, clean-up or lapse ever *)
(* changes a row that is BOOKED.                                           *)
BookedIsFinal ==
  [][\A s \in Seats : row[s].status = "BOOKED" => row'[s] = row[s]]_ledgerVars
=============================================================================
