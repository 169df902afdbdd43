-------------------------- MODULE SeatLedgerProofs --------------------------
(***************************************************************************)
(* Proofs about SeatLedger, for any sets of customers and seats.           *)
(*                                                                         *)
(* SeatSoldOnce alone is not inductive: it needs to know that a seat on a  *)
(* booking has a BOOKED row, which no later booking can start from.  The   *)
(* inductive invariant is therefore the conjunction of the type invariant, *)
(* BookedMatchesBookings and SeatSoldOnce.                                 *)
(***************************************************************************)
EXTENDS SeatLedger, SequenceTheorems, TLAPS

LedgerInv == LedgerTypeOK /\ BookedMatchesBookings /\ SeatSoldOnce

(* What appending one booking does to the positions of the table. *)
LEMMA AppendBooking ==
  ASSUME NEW T, NEW q \in Seq(T), NEW b \in T
  PROVE  /\ Append(q, b) \in Seq(T)
         /\ DOMAIN q = 1 .. Len(q) /\ Len(q) \in Nat
         /\ DOMAIN Append(q, b) = DOMAIN q \cup {Len(q) + 1}
         /\ Len(q) + 1 \notin DOMAIN q
         /\ \A i \in DOMAIN q : Append(q, b)[i] = q[i]
         /\ Append(q, b)[Len(q) + 1] = b
  OBVIOUS

(* The rows the operations write are rows of the table. *)
LEMMA RowTypes ==
  /\ NoRow \in SeatRow /\ OpenRow \in SeatRow
  /\ \A c \in Customers : BookedRow(c) \in SeatRow
  /\ \A c \in Customers, late \in BOOLEAN : HeldRow(c, late) \in SeatRow
  BY DEF NoRow, OpenRow, BookedRow, HeldRow, SeatRow, Statuses

(* A row of bookings names seats of the show, all of them BOOKED. *)
LEMMA ListedSeats ==
  ASSUME LedgerInv, NEW i \in DOMAIN bookings, NEW s \in bookings[i].seats
  PROVE  s \in Seats /\ row[s] = BookedRow(bookings[i].who) /\ row[s].status = "BOOKED"
  <1>1. bookings \in Seq(Booking)
    BY DEF LedgerInv, LedgerTypeOK
  <1>2. bookings[i] \in Booking
    BY <1>1
  <1> QED BY <1>2 DEF Booking, LedgerInv, BookedMatchesBookings, BookedRow

(* LedgerTypeOK holds initially: every seat is without a row or open. *)
LEMMA LedgerInitInv == LedgerInit => LedgerInv
  <1> SUFFICES ASSUME LedgerInit PROVE LedgerInv
    OBVIOUS
  <1>1. bookings = << >> /\ DOMAIN bookings = {}
    BY DEF LedgerInit
  <1>2. row \in [Seats -> SeatRow]
    BY RowTypes DEF LedgerInit
  <1>3. \A s \in Seats : row[s] = NoRow \/ row[s] = OpenRow
    BY DEF LedgerInit
  <1>4. LedgerTypeOK
    BY <1>1, <1>2, <1>3 DEF LedgerTypeOK, NoRow, OpenRow
  <1>5. BookedMatchesBookings /\ SeatSoldOnce
    BY <1>1, <1>3 DEF BookedMatchesBookings, SeatSoldOnce, NoRow, OpenRow
  <1> QED BY <1>4, <1>5 DEF LedgerInv

(* A step that leaves bookings and every BOOKED row alone, and writes no   *)
(* BOOKED row, preserves the invariant: hold, release, clean-up and lapse  *)
(* are such steps.                                                         *)
LEMMA UnsoldStep ==
  ASSUME LedgerInv,
         row' \in [Seats -> SeatRow],
         \A s \in Seats : row'[s] # row[s] => /\ row[s].status # "BOOKED"
                                              /\ row'[s].status # "BOOKED"
                                              /\ row'[s].status = "HELD" <=> row'[s].by # NoCustomer
                                              /\ row'[s].lapsed => row'[s].status = "HELD",
         UNCHANGED bookings
  PROVE  LedgerInv'
  <1>1. LedgerTypeOK'
    BY DEF LedgerInv, LedgerTypeOK
  <1>2. BookedMatchesBookings'
    <2>1. ASSUME NEW s \in Seats, row'[s].status = "BOOKED"
          PROVE  \E i \in DOMAIN bookings' : s \in bookings'[i].seats /\ bookings'[i].who = row'[s].by
      BY <2>1 DEF LedgerInv, BookedMatchesBookings
    <2>2. ASSUME NEW i \in DOMAIN bookings', NEW s \in bookings'[i].seats
          PROVE  row'[s] = BookedRow(bookings'[i].who)
      <3>1. i \in DOMAIN bookings /\ s \in bookings[i].seats /\ bookings'[i] = bookings[i]
        BY <2>2
      <3> QED BY <3>1, ListedSeats
    <2> QED BY <2>1, <2>2 DEF BookedMatchesBookings
  <1>3. SeatSoldOnce'
    BY DEF LedgerInv, SeatSoldOnce
  <1> QED BY <1>1, <1>2, <1>3 DEF LedgerInv

(* confirmBooking sells seats that no booking lists yet. *)
LEMMA ConfirmStep ==
  ASSUME LedgerInv, NEW c \in Customers, NEW S \in SUBSET Seats, ConfirmBooking(c, S)
  PROVE  LedgerInv'
  <1> DEFINE b == [who |-> c, seats |-> S, pay |-> NoPayment]
             n == Len(bookings) + 1
  <1>1. b \in Booking /\ bookings' = Append(bookings, b)
    BY DEF ConfirmBooking, Booking
  <1>2. /\ bookings' \in Seq(Booking)
        /\ DOMAIN bookings' = DOMAIN bookings \cup {n} /\ n \notin DOMAIN bookings
        /\ \A i \in DOMAIN bookings : bookings'[i] = bookings[i]
        /\ bookings'[n] = b
    <2>1. bookings \in Seq(Booking) /\ b \in Booking
      BY <1>1 DEF LedgerInv, LedgerTypeOK
    <2> HIDE DEF b
    <2> QED BY <2>1, <1>1, AppendBooking
  <1>3. /\ \A s \in Seats : row'[s] = IF s \in S THEN BookedRow(c) ELSE row[s]
        /\ \A s \in S : row[s].status = "HELD"
        /\ row' \in [Seats -> SeatRow]
    BY RowTypes DEF LedgerInv, LedgerTypeOK, ConfirmBooking, With, HeldBy
  <1>4. \A i \in DOMAIN bookings : bookings[i].seats \cap S = {} /\ bookings[i].seats \subseteq Seats
    BY <1>3, ListedSeats
  <1>5. LedgerTypeOK'
    BY <1>2, <1>3, CustomerAssumption DEF LedgerInv, LedgerTypeOK, BookedRow
  <1>6. SeatSoldOnce'
    BY <1>2, <1>4 DEF LedgerInv, SeatSoldOnce
  <1>7. BookedMatchesBookings'
    <2>1. ASSUME NEW s \in Seats, row'[s].status = "BOOKED"
          PROVE  \E i \in DOMAIN bookings' : s \in bookings'[i].seats /\ bookings'[i].who = row'[s].by
      <3>1. CASE s \in S
        <4>1. s \in bookings'[n].seats /\ bookings'[n].who = row'[s].by /\ n \in DOMAIN bookings'
          BY <3>1, <1>2, <1>3 DEF BookedRow
        <4> QED BY <4>1
      <3>2. CASE s \notin S
        <4>1. PICK i \in DOMAIN bookings : s \in bookings[i].seats /\ bookings[i].who = row[s].by
          BY <2>1, <3>2, <1>3 DEF LedgerInv, BookedMatchesBookings
        <4> QED BY <4>1, <3>2, <1>2, <1>3
      <3> QED BY <3>1, <3>2
    <2>2. ASSUME NEW i \in DOMAIN bookings', NEW s \in bookings'[i].seats
          PROVE  row'[s] = BookedRow(bookings'[i].who)
      <3>1. CASE i = n
        BY <3>1, <2>2, <1>2, <1>3
      <3>2. CASE i \in DOMAIN bookings
        <4>1. row[s] = BookedRow(bookings[i].who) /\ s \in Seats /\ s \notin S
          BY <3>2, <2>2, <1>2, <1>4 DEF LedgerInv, BookedMatchesBookings
        <4> QED BY <4>1, <3>2, <1>2, <1>3
      <3> QED BY <3>1, <3>2, <1>2
    <2> QED BY <2>1, <2>2 DEF BookedMatchesBookings
  <1> QED BY <1>5, <1>6, <1>7 DEF LedgerInv

(* Every step preserves the invariant. *)
LEMMA LedgerStepInv == LedgerInv /\ [LedgerNext]_ledgerVars => LedgerInv'
  <1> SUFFICES ASSUME LedgerInv, [LedgerNext]_ledgerVars PROVE LedgerInv'
    OBVIOUS
  <1>1. CASE UNCHANGED ledgerVars
    BY <1>1 DEF ledgerVars, LedgerInv, LedgerTypeOK, BookedMatchesBookings, SeatSoldOnce
  <1>2. ASSUME NEW S \in SUBSET Seats, NEW c \in Customers, HoldSeats(c, S)
        PROVE  LedgerInv'
    <2>1. PICK late \in BOOLEAN : row' = With(S, HeldRow(c, late))
      BY <1>2 DEF HoldSeats
    <2>2. row' \in [Seats -> SeatRow]
      BY <2>1, RowTypes DEF With, LedgerInv, LedgerTypeOK
    <2>3. \A s \in Seats : row'[s] # row[s] => row'[s] = HeldRow(c, late) /\ row[s].status # "BOOKED"
      BY <1>2, <2>1 DEF With, HoldSeats, Takeable
    <2> QED BY <2>2, <2>3, <1>2, UnsoldStep, CustomerAssumption DEF HoldSeats, HeldRow
  <1>3. ASSUME NEW S \in SUBSET Seats, NEW c \in Customers, ConfirmBooking(c, S)
        PROVE  LedgerInv'
    BY <1>3, ConfirmStep
  <1>4. ASSUME NEW S \in SUBSET Seats, \A s \in S : row[s].status = "HELD",
               row' = With(S, NoRow), UNCHANGED bookings
        PROVE  LedgerInv'
    <2>1. row' \in [Seats -> SeatRow]
      BY <1>4, RowTypes DEF With, LedgerInv, LedgerTypeOK
    <2>2. \A s \in Seats : row'[s] # row[s] => row'[s] = NoRow /\ row[s].status # "BOOKED"
      BY <1>4 DEF With
    <2>3. \A s \in Seats : row'[s] # row[s] => /\ row'[s].status = "ABSENT" /\ ~row'[s].lapsed
                                               /\ row'[s].by = NoCustomer
      BY <2>2 DEF NoRow
    <2> QED BY <2>1, <2>2, <2>3, <1>4, UnsoldStep
  <1>5. ASSUME NEW S \in SUBSET Seats, Lapse(S)
        PROVE  LedgerInv'
    <2>1. row' \in [Seats -> SeatRow]
      <3>1. \A s \in S : row[s].by \in Customers
        BY <1>5 DEF Lapse, SeatRow, LedgerInv, LedgerTypeOK
      <3>2. \A s \in S : HeldRow(row[s].by, TRUE) \in SeatRow
        BY <3>1, RowTypes
      <3> QED BY <1>5, <3>2 DEF Lapse, LedgerInv, LedgerTypeOK
    <2>2. \A s \in Seats : row'[s] # row[s] => /\ row[s].status = "HELD"
                                               /\ row'[s] = HeldRow(row[s].by, TRUE)
      BY <1>5 DEF Lapse
    <2>3. \A s \in Seats : row'[s] # row[s] => row'[s].status = "HELD" /\ row'[s].by # NoCustomer
      <3>1. \A s \in Seats : row[s].status = "HELD" => row[s].by # NoCustomer
        BY DEF LedgerInv, LedgerTypeOK
      <3>2. \A c : HeldRow(c, TRUE).status = "HELD" /\ HeldRow(c, TRUE).by = c
        BY DEF HeldRow
      <3> QED BY <2>2, <3>1, <3>2
    <2> QED BY <2>1, <2>2, <2>3, <1>5, UnsoldStep DEF Lapse
  <1> QED
    BY <1>1, <1>2, <1>3, <1>4, <1>5
    DEF LedgerNext, ReleaseSeats, CleanupExpiredHolds, HeldBy

(* The type invariant of show_booked_seats and bookings. *)
THEOREM LedgerTypeCorrect == LedgerSpec => []LedgerTypeOK
  <1>1. LedgerInv => LedgerTypeOK
    BY DEF LedgerInv
  <1> QED BY <1>1, LedgerInitInv, LedgerStepInv, PTL DEF LedgerSpec

(* No seat is ever on two bookings made through the seat endpoints. *)
THEOREM LedgerSellsSeatsOnce == LedgerSpec => []SeatSoldOnce
  <1>1. LedgerInv => SeatSoldOnce
    BY DEF LedgerInv
  <1> QED BY <1>1, LedgerInitInv, LedgerStepInv, PTL DEF LedgerSpec

(* The seat map and the booking list always agree. *)
THEOREM LedgerRowsMatchBookings == LedgerSpec => []BookedMatchesBookings
  <1>1. LedgerInv => BookedMatchesBookings
    BY DEF LedgerInv
  <1> QED BY <1>1, LedgerInitInv, LedgerStepInv, PTL DEF LedgerSpec

(* A BOOKED row never changes again. *)
THEOREM LedgerBookedIsFinal == LedgerSpec => BookedIsFinal
  <1>1. LedgerInv /\ [LedgerNext]_ledgerVars
          => [\A s \in Seats : row[s].status = "BOOKED" => row'[s] = row[s]]_ledgerVars
    BY DEF LedgerInv, LedgerTypeOK, LedgerNext, HoldSeats, ConfirmBooking, ReleaseSeats,
           CleanupExpiredHolds, Lapse, Takeable, HeldBy, With, ledgerVars
  <1> QED BY <1>1, LedgerInitInv, LedgerStepInv, PTL DEF LedgerSpec, BookedIsFinal
=============================================================================
