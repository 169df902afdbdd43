------------------------- MODULE SeatLockingProofs -------------------------
(***************************************************************************)
(* Proofs about SeatLocking, for any customers, seats, connections, seat   *)
(* lists and times: the row locks protect what a transaction has decided,  *)
(* and the statements of the seat endpoints implement the atomic           *)
(* operations of SeatLedger.                                               *)
(*                                                                         *)
(* SecuredStaysTrue says that the seats in "got" are locked by their       *)
(* transaction.  It is inductive only together with                        *)
(*   - InsertHoldsLock: a lock on a seat without a row belongs to the      *)
(*     transaction that inserted it, so an INSERT that does not wait meets *)
(*     no lock;                                                            *)
(*   - RequestOK and IdleClean: what a request is made of at each stage.   *)
(*                                                                         *)
(* That lists in one order never deadlock rests on LocksVisited: a request *)
(* holds locks only in the part of its list it has visited.  Of requests   *)
(* that wait for each other, the one that waits for the first seat in the  *)
(* order would be waited for because of an even earlier one.               *)
(***************************************************************************)
EXTENDS SeatLocking, SequenceTheorems, FiniteSetTheorems, WellFoundedInduction, TLAPS

IdleClean == \A k \in Conns : tx[k].kind = "idle" => tx[k] = Idle

RequestOK ==
  \A k \in Conns :
    /\ tx[k].at <= clock
    /\ tx[k].kind \in {"hold", "confirm", "release"} => tx[k].who \in Customers
    /\ tx[k].kind \in {"hold", "confirm"} => tx[k].asked # {}
    /\ tx[k].kind \in {"hold", "confirm"} /\ ~tx[k].bad
         => tx[k].asked = tx[k].got \cup ListSeats(tx[k].todo)
    /\ tx[k].kind = "confirm" => ~tx[k].bad
    /\ tx[k].step = "insert" => tx[k].kind = "hold" /\ tx[k].todo # << >>

InsertHoldsLock ==
  \A s \in Seats : lock[s] # NoConn /\ row[s].status = "ABSENT" =>
    s \in tx[lock[s]].got /\ tx[lock[s]].kind = "hold"

NoLeakedLock == \A s \in Seats : lock[s] # NoConn => tx[lock[s]].kind # "idle"

(* What is still to be visited is the end of the list. *)
Ahead(req) ==
  /\ Len(req.todo) <= Len(req.list)
  /\ \A i \in 1 .. Len(req.todo) : req.todo[i] = req.list[i + (Len(req.list) - Len(req.todo))]

Visited(req) == {req.list[i] : i \in 1 .. Len(req.list) - Len(req.todo)}

LocksVisited == /\ \A k \in Conns : Ahead(tx[k])
                /\ \A s \in Seats : lock[s] # NoConn => s \in Visited(tx[lock[s]])

LockInv == /\ TypeOK
           /\ IdleClean
           /\ RequestOK
           /\ NoLeakedLock
           /\ LocksVisited
           /\ SecuredStaysTrue
           /\ InsertHoldsLock

-----------------------------------------------------------------------------
(* Lists and requests. *)

(* A list that is not empty has a first seat and the rest of its seats.     *)
LEMMA HeadTail ==
  ASSUME NEW q \in Seq(Seats), q # << >>
  PROVE  /\ Head(q) \in Seats /\ Tail(q) \in Seq(Seats)
         /\ ListSeats(q) = {Head(q)} \cup ListSeats(Tail(q))
  <1>1. /\ Head(q) \in Seats /\ Tail(q) \in Seq(Seats) /\ Len(q) \in Nat \ {0}
        /\ Len(Tail(q)) = Len(q) - 1 /\ Head(q) = q[1]
        /\ \A i \in 1 .. Len(Tail(q)) : Tail(q)[i] = q[i + 1]
        /\ DOMAIN q = 1 .. Len(q) /\ DOMAIN Tail(q) = 1 .. Len(Tail(q))
    BY HeadTailProperties
  <1>2. ASSUME NEW s \in ListSeats(q) PROVE s \in {Head(q)} \cup ListSeats(Tail(q))
    <2>1. PICK i \in 1 .. Len(q) : s = q[i]
      BY <1>1, <1>2 DEF ListSeats
    <2>2. CASE i = 1
      BY <2>1, <2>2, <1>1
    <2>3. CASE i # 1
      <3>1. i - 1 \in DOMAIN Tail(q) /\ Tail(q)[i - 1] = s
        BY <2>1, <2>3, <1>1
      <3> QED BY <3>1 DEF ListSeats
    <2> QED BY <2>2, <2>3
  <1>3. Head(q) \in ListSeats(q)
    BY <1>1 DEF ListSeats
  <1>4. ASSUME NEW s \in ListSeats(Tail(q)) PROVE s \in ListSeats(q)
    <2>1. PICK i \in 1 .. Len(q) - 1 : s = Tail(q)[i]
      BY <1>1, <1>4 DEF ListSeats
    <2>2. i + 1 \in DOMAIN q /\ q[i + 1] = s
      BY <2>1, <1>1
    <2> QED BY <2>2 DEF ListSeats
  <1> QED BY <1>1, <1>2, <1>3, <1>4

(* The seats of a list are seats.                                           *)
LEMMA ListSeatsType ==
  /\ ListSeats(<< >>) = {}
  /\ \A q \in Seq(Seats) : ListSeats(q) \in SUBSET Seats
  /\ \A q \in SeatLists : q \in Seq(Seats) /\ ListSeats(q) # {}
  <1>1. ListSeats(<< >>) = {}
    BY DEF ListSeats
  <1>2. ASSUME NEW q \in Seq(Seats) PROVE ListSeats(q) \in SUBSET Seats
    BY DEF ListSeats
  <1>3. ASSUME NEW q \in SeatLists PROVE q \in Seq(Seats) /\ ListSeats(q) # {}
    <2>1. q \in Seq(Seats) /\ q # << >>
      BY LockingAssumption
    <2> QED BY <2>1, HeadTail
  <1> QED BY <1>1, <1>2, <1>3

(* The idle request is a request that has secured nothing.                  *)
LEMMA IdleType == Idle \in TxType /\ Idle.got = {} /\ Idle.kind = "idle" /\ Idle.at = 0
                  /\ Idle.step = "select" /\ Ahead(Idle)
  <1>1. << >> \in Seq(Seats) /\ Len(<< >>) = 0
    OBVIOUS
  <1> QED BY <1>1, ListSeatsType, LockingAssumption DEF Idle, Request, TxType, Ahead

(* The next seat of a request comes after those it has visited, and once   *)
(* it is passed the rest of the list is still ahead.                        *)
LEMMA NextIsLater ==
  ASSUME NEW list \in Seq(Seats), NEW todo \in Seq(Seats), todo # << >>,
         NEW n, n = Len(list) - Len(todo), Len(todo) <= Len(list),
         \A i \in 1 .. Len(todo) : todo[i] = list[i + n]
  PROVE  /\ n \in Nat /\ n + 1 \in 1 .. Len(list) /\ list[n + 1] = Head(todo)
         /\ Len(list) - Len(Tail(todo)) = n + 1 /\ Len(Tail(todo)) <= Len(list)
         /\ \A i \in 1 .. Len(Tail(todo)) : Tail(todo)[i] = list[i + (n + 1)]
  <1>1. /\ Head(todo) = todo[1] /\ Len(Tail(todo)) = Len(todo) - 1
        /\ \A i \in 1 .. Len(Tail(todo)) : Tail(todo)[i] = todo[i + 1]
    BY HeadTailProperties
  <1>2. PICK l \in Nat, t \in Nat \ {0} : l = Len(list) /\ t = Len(todo)
    BY HeadTailProperties
  <1>3. /\ n = l - t /\ t <= l /\ Len(Tail(todo)) = t - 1
        /\ \A i \in 1 .. t : todo[i] = list[i + n]
    BY <1>1, <1>2
  <1>4. n \in Nat /\ n + 1 \in 1 .. l /\ 1 + n = n + 1 /\ 1 \in 1 .. t
    BY <1>2, <1>3
  <1>5. list[n + 1] = Head(todo)
    BY <1>1, <1>3, <1>4
  <1>6. ASSUME NEW i \in 1 .. t - 1 PROVE Tail(todo)[i] = list[i + (n + 1)]
    <2>1. i + 1 \in 1 .. t /\ (i + 1) + n = i + (n + 1)
      BY <1>2, <1>4
    <2> QED BY <2>1, <1>1, <1>3
  <1> QED BY <1>2, <1>3, <1>4, <1>5, <1>6

(* A request that goes on has visited one seat more.                        *)
LEMMA VisitNext ==
  ASSUME NEW req, NEW new, NEW list \in Seq(Seats), NEW todo \in Seq(Seats),
         req.list = list, req.todo = todo, todo # << >>, Ahead(req),
         new.list = list, new.todo = Tail(todo)
  PROVE  Ahead(new) /\ Visited(req) \subseteq Visited(new) /\ Head(todo) \in Visited(new)
  <1>1. PICK n : n = Len(list) - Len(todo)
    OBVIOUS
  <1>2. /\ list \in Seq(Seats) /\ todo \in Seq(Seats) /\ todo # << >>
        /\ Len(todo) <= Len(list) /\ \A i \in 1 .. Len(todo) : todo[i] = list[i + n]
    BY <1>1 DEF Ahead
  <1>3. /\ n \in Nat /\ n + 1 \in 1 .. Len(list) /\ list[n + 1] = Head(todo)
        /\ Len(list) - Len(Tail(todo)) = n + 1 /\ Len(Tail(todo)) <= Len(list)
        /\ \A i \in 1 .. Len(Tail(todo)) : Tail(todo)[i] = list[i + (n + 1)]
    BY ONLY <1>1, <1>2, NextIsLater
  <1>4. Ahead(new)
    BY <1>3 DEF Ahead
  <1>5. Visited(req) = {list[i] : i \in 1 .. n} /\ Visited(new) = {list[i] : i \in 1 .. n + 1}
    BY <1>1, <1>3 DEF Visited
  <1>6. 1 .. n \subseteq 1 .. n + 1 /\ n + 1 \in 1 .. n + 1
    BY <1>3
  <1> QED BY <1>3, <1>4, <1>5, <1>6

-----------------------------------------------------------------------------
(* The four kinds of step: a request begins, it advances past a seat, it   *)
(* ends (by COMMIT or ROLLBACK), or the clock ticks.                       *)

(* The initial states satisfy the inductive invariant.                      *)
LEMMA InitInv == Init => LockInv
  <1> SUFFICES ASSUME Init PROVE LockInv
    OBVIOUS
  <1>1. NoRow \in SeatRow /\ OpenRow \in SeatRow
    BY LockingAssumption DEF NoRow, OpenRow, SeatRow, Times
  <1>2. TypeOK
    BY <1>1, IdleType, LockingAssumption DEF Init, TypeOK
  <1>3. LocksVisited
    BY IdleType DEF Init, LocksVisited
  <1> QED
    BY <1>2, <1>3, IdleType
    DEF Init, LockInv, IdleClean, RequestOK, NoLeakedLock, SecuredStaysTrue, InsertHoldsLock,
        Idle, Request

(* What a beginning request looks like. *)
Fresh(req) ==
  /\ req \in TxType /\ req.kind # "idle"
  /\ req.got = {} /\ ~req.bad /\ req.at = clock /\ req.step = "select" /\ req.list = req.todo
  /\ req.kind \in {"hold", "confirm", "release"} => req.who \in Customers
  /\ req.kind \in {"hold", "confirm"} => req.asked # {} /\ req.asked = ListSeats(req.todo)

(* A well-formed request that starts on an idle connection preserves it.    *)
LEMMA BeginInv ==
  ASSUME LockInv, NEW k \in Conns, NEW req, Fresh(req), Begin(k, req)
  PROVE  LockInv'
  <1>1. /\ tx' \in [Conns -> TxType] /\ tx'[k] = req /\ tx[k] = Idle
        /\ \A j \in Conns \ {k} : tx'[j] = tx[j]
        /\ UNCHANGED <<clock, row, bookings, lock>>
    BY DEF LockInv, TypeOK, Begin, Fresh
  <1>2. TypeOK'
    BY <1>1 DEF LockInv, TypeOK
  <1>3. IdleClean' /\ RequestOK'
    <2>1. \A j \in Conns \ {k} : tx'[j] = tx[j] /\ clock' = clock
      BY <1>1
    <2>2. clock \in Nat
      BY LockingAssumption DEF LockInv, TypeOK
    <2> QED BY <2>1, <2>2, <1>1 DEF LockInv, IdleClean, RequestOK, Fresh
  <1>4. NoLeakedLock'
    BY <1>1 DEF LockInv, NoLeakedLock, TypeOK, Fresh
  <1>5. SecuredStaysTrue'
    <2>1. \A j \in Conns : \A s \in tx'[j].got : j # k /\ tx'[j] = tx[j]
      BY <1>1 DEF Fresh
    <2> QED BY <2>1, <1>1 DEF LockInv, SecuredStaysTrue, Secured, IsAvailable, Confirmable, Matches
  <1>6. \A s \in Seats : lock[s] # k
    BY <1>1, IdleType, LockingAssumption DEF LockInv, NoLeakedLock, TypeOK
  <1>7. InsertHoldsLock'
    BY <1>6, <1>1 DEF LockInv, InsertHoldsLock, TypeOK
  <1>8. LocksVisited'
    <2>1. Ahead(req)
      <3>1. req.todo \in Seq(Seats)
        BY DEF Fresh, TxType
      <3> QED BY <3>1 DEF Fresh, Ahead
    <2>2. \A j \in Conns : Ahead(tx'[j])
      BY <2>1, <1>1 DEF LockInv, LocksVisited
    <2>3. \A s \in Seats : lock[s] # NoConn => tx'[lock[s]] = tx[lock[s]]
      BY <1>1, <1>6 DEF LockInv, TypeOK
    <2> QED BY <2>2, <2>3, <1>1 DEF LockInv, LocksVisited
  <1> QED BY <1>2, <1>3, <1>4, <1>5, <1>7, <1>8 DEF LockInv

(* A request that advances past its next seat and secures it has its lock; *)
(* one that does not secure it may have locked a row that exists.          *)
LEMMA AdvanceInv ==
  ASSUME LockInv, NEW k \in Conns, tx[k].todo # << >>, tx[k].kind # "idle",
         NEW S \in SUBSET {Next1(k)}, NEW failed \in BOOLEAN,
         Advance(k, S, failed, "select"),
         UNCHANGED <<clock, row, bookings>>,
         lock' = lock \/ (Take(k, Next1(k)) /\ lock[Next1(k)] \in {NoConn, k}),
         S # {} => /\ lock'[Next1(k)] = k
                   /\ tx[k].kind = "hold" => \/ row[Next1(k)].status = "ABSENT"
                                             \/ IsAvailable(row[Next1(k)])
                   /\ tx[k].kind = "confirm" => Confirmable(row[Next1(k)], tx[k].who, tx[k].at)
                   /\ tx[k].kind \in {"release", "cleanup"} => Matches(tx[k], Next1(k)),
         S = {} => \/ lock' = lock \/ row[Next1(k)].status # "ABSENT" \/ Next1(k) \in tx[k].got,
         row[Next1(k)].status = "ABSENT" /\ S # {} => tx[k].kind = "hold",
         S = {} /\ tx[k].kind \in {"hold", "confirm"} => failed,
         tx[k].kind = "confirm" => ~failed
  PROVE  LockInv'
  <1> DEFINE s == Next1(k)
  <1>1. TypeOK
    BY DEF LockInv
  <1>2. tx[k].todo \in Seq(Seats)
    BY <1>1 DEF TypeOK, TxType
  <1>3. s \in Seats
    BY <1>2, HeadTail DEF Next1
  <1>4. /\ tx' \in [Conns -> TxType]
        /\ \A j \in Conns \ {k} : tx'[j] = tx[j]
        /\ tx'[k].kind = tx[k].kind /\ tx'[k].who = tx[k].who
        /\ tx'[k].asked = tx[k].asked /\ tx'[k].at = tx[k].at /\ tx'[k].list = tx[k].list
        /\ tx'[k].todo = Tail(tx[k].todo) /\ tx'[k].got = tx[k].got \cup S
        /\ tx'[k].bad = (tx[k].bad \/ failed) /\ tx'[k].step = "select"
        /\ ListSeats(tx[k].todo) = {s} \cup ListSeats(Tail(tx[k].todo))
    <2>1. tx[k] \in TxType /\ S \in SUBSET Seats
      BY <1>1, <1>3 DEF TypeOK, TxType
    <2>2. /\ Tail(tx[k].todo) \in Seq(Seats)
          /\ ListSeats(tx[k].todo) = {s} \cup ListSeats(Tail(tx[k].todo))
      BY <1>2, HeadTail DEF Next1
    <2>3. tx' = [tx EXCEPT ![k].todo = Tail(tx[k].todo), ![k].got = tx[k].got \cup S,
                          ![k].bad = tx[k].bad \/ failed, ![k].step = "select"]
      BY DEF Advance
    <2> HIDE DEF s
    <2>4. tx'[k] \in TxType
      BY <2>1, <2>2, <2>3, <1>1 DEF TypeOK, TxType
    <2> QED BY <2>1, <2>2, <2>3, <2>4, <1>1 DEF TypeOK, TxType
  <1>5. /\ lock' \in [Seats -> Conns \cup {NoConn}]
        /\ \A r \in Seats : lock'[r] = lock[r] \/ (r = s /\ lock'[r] = k /\ lock[r] \in {NoConn, k})
    BY <1>1, <1>3 DEF TypeOK, Take
  <1> HIDE DEF s
  <1>6. TypeOK'
    BY <1>1, <1>4, <1>5 DEF TypeOK
  <1>7. IdleClean'
    BY <1>4 DEF LockInv, IdleClean
  <1>8. RequestOK'
    <2>1. clock' = clock
      OBVIOUS
    <2>2. \A j \in Conns \ {k} : tx'[j] = tx[j]
      BY <1>4
    <2>3. tx[k].kind \in {"hold", "confirm"} /\ ~tx'[k].bad
            => tx[k].asked = tx'[k].got \cup ListSeats(tx'[k].todo)
      <3> SUFFICES ASSUME tx[k].kind \in {"hold", "confirm"}, ~tx'[k].bad
                   PROVE  tx[k].asked = tx'[k].got \cup ListSeats(tx'[k].todo)
        OBVIOUS
      <3>1. ~failed /\ ~tx[k].bad
        BY <1>4
      <3>2. S = {s}
        BY <3>1 DEF s
      <3>3. tx[k].asked = tx[k].got \cup ListSeats(tx[k].todo)
        BY <3>1 DEF LockInv, RequestOK
      <3> QED BY <3>2, <3>3, <1>4
    <2> QED BY <2>1, <2>2, <2>3, <1>4 DEF LockInv, RequestOK
  <1>9. NoLeakedLock'
    BY <1>1, <1>4, <1>5 DEF LockInv, NoLeakedLock, TypeOK
  <1>10. SecuredStaysTrue'
    <2> SUFFICES ASSUME NEW j \in Conns, NEW r \in tx'[j].got PROVE Secured(j, r)'
      BY DEF SecuredStaysTrue
    <2>1. CASE r \in tx[j].got
      <3>1. Secured(j, r) /\ r \in Seats
        BY <2>1, <1>1 DEF LockInv, SecuredStaysTrue, TypeOK, TxType
      <3>2. lock'[r] = j
        BY <3>1, <1>5, LockingAssumption DEF Secured
      <3>3. tx'[j].kind = tx[j].kind /\ tx'[j].who = tx[j].who /\ tx'[j].at = tx[j].at
            /\ tx'[j].asked = tx[j].asked
        BY <1>4
      <3> QED BY <3>1, <3>2, <3>3 DEF Secured, IsAvailable, Confirmable, Matches
    <2>2. CASE r \notin tx[j].got
      <3>1. j = k /\ r = s /\ S # {}
        BY <2>2, <1>4 DEF s
      <3> QED BY <3>1, <1>4 DEF Secured, IsAvailable, Confirmable, Matches, s
    <2> QED BY <2>1, <2>2
  <1>11. InsertHoldsLock'
    <2> SUFFICES ASSUME NEW r \in Seats, lock'[r] # NoConn, row[r].status = "ABSENT"
                 PROVE  r \in tx'[lock'[r]].got /\ tx'[lock'[r]].kind = "hold"
      BY DEF InsertHoldsLock
    <2>1. CASE lock'[r] = lock[r]
      <3>1. lock[r] \in Conns /\ r \in tx[lock[r]].got /\ tx[lock[r]].kind = "hold"
        BY <2>1, <1>1 DEF LockInv, InsertHoldsLock, TypeOK
      <3> QED BY <2>1, <3>1, <1>4
    <2>2. CASE lock'[r] # lock[r]
      <3>1. r = s /\ lock'[r] = k /\ lock[r] = NoConn
        BY <2>2, <1>5
      <3>2. s \notin tx[k].got
        BY <3>1, LockingAssumption DEF LockInv, SecuredStaysTrue, Secured
      <3> QED BY <3>1, <3>2, <2>2, <1>4 DEF s
    <2> QED BY <2>1, <2>2
  <1>12. LocksVisited'
    <2>1. /\ tx[k].list \in Seq(Seats) /\ Ahead(tx[k]) /\ s = Head(tx[k].todo)
          /\ \A j \in Conns : Ahead(tx[j])
      BY <1>1 DEF TypeOK, TxType, LockInv, LocksVisited, s, Next1
    <2>2. /\ Ahead(tx'[k]) /\ Visited(tx[k]) \subseteq Visited(tx'[k]) /\ s \in Visited(tx'[k])
      <3>1. PICK list \in Seq(Seats), todo \in Seq(Seats) : list = tx[k].list /\ todo = tx[k].todo
        BY <2>1, <1>2
      <3>2. todo # << >> /\ tx'[k].list = list /\ tx'[k].todo = Tail(todo) /\ s = Head(todo)
        BY <2>1, <3>1, <1>4
      <3>3. PICK req, new : req = tx[k] /\ new = tx'[k]
        OBVIOUS
      <3>4. req.list = list /\ req.todo = todo /\ Ahead(req) /\ new.list = list /\ new.todo = Tail(todo)
        BY <2>1, <3>1, <3>2, <3>3
      <3>5. Ahead(new) /\ Visited(req) \subseteq Visited(new) /\ Head(todo) \in Visited(new)
        BY ONLY <3>2, <3>4, VisitNext
      <3> QED BY <3>2, <3>3, <3>5
    <2>3. \A j \in Conns : Ahead(tx'[j]) /\ Visited(tx[j]) \subseteq Visited(tx'[j])
      BY <2>1, <2>2, <1>4
    <2>4. ASSUME NEW r \in Seats, lock'[r] # NoConn PROVE r \in Visited(tx'[lock'[r]])
      <3>1. CASE lock'[r] = lock[r]
        <4>1. lock[r] \in Conns /\ r \in Visited(tx[lock[r]])
          BY <3>1, <2>4, <1>1 DEF TypeOK, LockInv, LocksVisited
        <4> QED BY <3>1, <4>1, <2>3
      <3>2. CASE lock'[r] # lock[r]
        BY <3>2, <1>5, <2>2
      <3> QED BY <3>1, <3>2
    <2> QED BY <2>3, <2>4 DEF LocksVisited
  <1> QED BY <1>6, <1>7, <1>8, <1>9, <1>10, <1>11, <1>12 DEF LockInv

(* A request that ends gives up its locks, and wrote only rows it locked.  *)
LEMMA EndInv ==
  ASSUME LockInv, NEW k \in Conns,
         Unlock(k), tx' = [tx EXCEPT ![k] = Idle], clock' = clock,
         row' \in [Seats -> SeatRow],
         \A s \in Seats \ tx[k].got : row'[s] = row[s],
         bookings' \in Seq(Booking)
  PROVE  LockInv'
  <1>1. /\ TypeOK /\ tx' \in [Conns -> TxType] /\ tx'[k] = Idle
        /\ \A j \in Conns \ {k} : tx'[j] = tx[j]
    BY IdleType DEF LockInv, TypeOK
  <1>2. /\ lock' \in [Seats -> Conns \cup {NoConn}]
        /\ \A s \in Seats : lock'[s] = IF lock[s] = k THEN NoConn ELSE lock[s]
    BY <1>1 DEF Unlock, TypeOK
  <1>3. TypeOK'
    BY <1>1, <1>2 DEF TypeOK
  <1>4. IdleClean' /\ RequestOK'
    BY <1>1, IdleType, <1>3 DEF LockInv, IdleClean, RequestOK, TypeOK
  <1>5. NoLeakedLock'
    BY <1>1, <1>2 DEF LockInv, NoLeakedLock, TypeOK
  <1>6. SecuredStaysTrue'
    <2> SUFFICES ASSUME NEW j \in Conns, NEW s \in tx'[j].got PROVE Secured(j, s)'
      BY DEF SecuredStaysTrue
    <2>1. j # k /\ tx'[j] = tx[j] /\ s \in tx[j].got /\ s \in Seats
      BY <1>1, IdleType DEF TypeOK, TxType
    <2>2. Secured(j, s) /\ lock[s] = j
      BY <2>1 DEF LockInv, SecuredStaysTrue, Secured
    <2>3. s \notin tx[k].got
      BY <2>1, <2>2 DEF LockInv, SecuredStaysTrue, Secured
    <2>4. row'[s] = row[s] /\ lock'[s] = j
      BY <2>1, <2>2, <2>3, <1>2
    <2> QED BY <2>1, <2>2, <2>4 DEF Secured, IsAvailable, Confirmable, Matches
  <1>7. InsertHoldsLock'
    <2> SUFFICES ASSUME NEW s \in Seats, lock'[s] # NoConn, row'[s].status = "ABSENT"
                 PROVE  s \in tx'[lock'[s]].got /\ tx'[lock'[s]].kind = "hold"
      BY DEF InsertHoldsLock
    <2>1. lock'[s] = lock[s] /\ lock[s] \in Conns \ {k}
      BY <1>1, <1>2 DEF TypeOK
    <2>2. s \notin tx[k].got
      BY <2>1 DEF LockInv, SecuredStaysTrue, Secured
    <2> QED BY <2>1, <2>2, <1>1 DEF LockInv, InsertHoldsLock
  <1>8. LocksVisited'
    <2>1. \A j \in Conns : Ahead(tx'[j])
      BY <1>1, IdleType DEF LockInv, LocksVisited
    <2>2. ASSUME NEW s \in Seats, lock'[s] # NoConn PROVE s \in Visited(tx'[lock'[s]])
      <3>1. lock'[s] = lock[s] /\ lock[s] \in Conns \ {k}
        BY <2>2, <1>1, <1>2 DEF TypeOK
      <3> QED BY <3>1, <1>1, <2>2 DEF LockInv, LocksVisited
    <2> QED BY <2>1, <2>2 DEF LocksVisited
  <1> QED BY <1>3, <1>4, <1>5, <1>6, <1>7, <1>8 DEF LockInv

(* The clock preserves it: an expired hold stays expired.                   *)
LEMMA TickInv == LockInv /\ Tick => LockInv'
  <1> SUFFICES ASSUME LockInv, Tick PROVE LockInv'
    OBVIOUS
  <1>1. /\ clock \in Nat /\ clock' = clock + 1 /\ clock' \in 0 .. MaxClock
        /\ UNCHANGED <<row, bookings, lock, tx>>
    BY LockingAssumption DEF LockInv, TypeOK, Tick
  <1>2. TypeOK'
    BY <1>1 DEF LockInv, TypeOK
  <1>3. IdleClean' /\ NoLeakedLock' /\ LocksVisited' /\ InsertHoldsLock'
    BY <1>1 DEF LockInv, IdleClean, NoLeakedLock, LocksVisited, InsertHoldsLock
  <1>4. RequestOK'
    <2>1. \A k \in Conns : tx[k].at \in Nat
      BY LockingAssumption DEF LockInv, TypeOK, TxType
    <2> QED BY <1>1, <2>1 DEF LockInv, RequestOK
  <1>5. SecuredStaysTrue'
    <2> SUFFICES ASSUME NEW k \in Conns, NEW s \in tx[k].got PROVE Secured(k, s)'
      BY <1>1 DEF SecuredStaysTrue
    <2>1. Secured(k, s) /\ s \in Seats
      BY DEF LockInv, SecuredStaysTrue, TypeOK, TxType
    <2>2. row[s].until \in Nat
      BY <2>1, LockingAssumption DEF LockInv, TypeOK, SeatRow, Times
    <2>3. IsAvailable(row[s]) => IsAvailable(row[s])'
      BY <1>1, <2>2 DEF IsAvailable
    <2> QED BY <1>1, <2>1, <2>3 DEF Secured, Confirmable, Matches
  <1> QED BY <1>2, <1>3, <1>4, <1>5 DEF LockInv

-----------------------------------------------------------------------------
(* The statements. *)

(* An unlocked row, or one that k has locked, unless k waits. *)
LEMMA NotWaiting ==
  ASSUME LockInv, NEW k \in Conns, tx[k].todo # << >>, ~Waits(k),
         \/ tx[k].step # "insert" /\ row[Next1(k)].status # "ABSENT"
         \/ tx[k].step = "insert" /\ row[Next1(k)].status = "ABSENT"
  PROVE  lock[Next1(k)] \in {NoConn, k}
  <1> SUFFICES ASSUME LockedByOther(k, Next1(k)) PROVE FALSE
    BY DEF LockedByOther
  <1>1. Next1(k) \in Seats
    BY HeadTail DEF LockInv, TypeOK, TxType, Next1
  <1>2. CASE tx[k].step # "insert" /\ row[Next1(k)].status # "ABSENT"
    BY <1>2 DEF Waits
  <1>3. CASE tx[k].step = "insert" /\ row[Next1(k)].status = "ABSENT"
    <2>1. tx[k].kind = "hold"
      BY <1>3 DEF LockInv, RequestOK
    <2>2. Next1(k) \in tx[lock[Next1(k)]].got /\ tx[lock[Next1(k)]].kind = "hold"
      BY <1>1, <1>3 DEF LockInv, InsertHoldsLock, LockedByOther
    <2> QED BY <1>3, <2>1, <2>2 DEF Waits
  <1> QED BY <1>2, <1>3

(* The rows that COMMIT writes are rows of the table.                       *)
LEMMA NewRows ==
  ASSUME TypeOK, NEW k \in Conns
  PROVE  /\ NoRow \in SeatRow
         /\ tx[k].who \in Customers =>
              HeldRow(tx[k].who, tx[k].at + HoldTicks) \in SeatRow /\ BookedRow(tx[k].who) \in SeatRow
  <1>1. tx[k].at \in 0 .. MaxClock
    BY DEF TypeOK, TxType
  <1>2. tx[k].at + HoldTicks \in Times /\ 0 \in Times
    BY <1>1, LockingAssumption DEF Times
  <1> QED BY <1>2 DEF NoRow, HeldRow, BookedRow, SeatRow

(* ROLLBACK preserves the invariant, whatever its reason.                   *)
LEMMA RollbackInv ==
  ASSUME LockInv, NEW k \in Conns, Rollback(k)
  PROVE  LockInv'
  <1>1. Unlock(k) /\ tx' = [tx EXCEPT ![k] = Idle] /\ UNCHANGED <<clock, row, bookings>>
    BY DEF Rollback
  <1>2. row' \in [Seats -> SeatRow] /\ bookings' \in Seq(Booking) /\ clock' = clock
        /\ \A s \in Seats \ tx[k].got : row'[s] = row[s]
    BY <1>1 DEF LockInv, TypeOK
  <1> QED BY <1>1, <1>2, EndInv

(* COMMIT of a row of the right type preserves the invariant.               *)
LEMMA CommitInv ==
  ASSUME LockInv, NEW k \in Conns, NEW r \in SeatRow, Commit(k, r), bookings' \in Seq(Booking)
  PROVE  LockInv'
  <1>1. /\ Unlock(k) /\ tx' = [tx EXCEPT ![k] = Idle] /\ clock' = clock
        /\ row' = [s \in Seats |-> IF s \in tx[k].got THEN r ELSE row[s]]
    BY DEF Commit
  <1>2. row' \in [Seats -> SeatRow] /\ \A s \in Seats \ tx[k].got : row'[s] = row[s]
    BY <1>1 DEF LockInv, TypeOK
  <1> QED BY <1>1, <1>2, EndInv

(* The first statement of each request preserves the invariant.             *)
LEMMA ArriveInv ==
  ASSUME LockInv, NEW k \in Conns, Arrive(k)
  PROVE  LockInv'
  <1>1. clock \in 0 .. MaxClock /\ << >> \in Seq(Seats)
    BY DEF LockInv, TypeOK
  <1>2. CASE HoldSeatsBegin(k)
    <2>1. PICK c \in Customers, q \in SeatLists : Begin(k, Request("hold", c, q, clock))
      BY <1>2 DEF HoldSeatsBegin
    <2>2. Fresh(Request("hold", c, q, clock))
      BY <1>1, ListSeatsType DEF Fresh, Request, TxType
    <2> QED BY <2>1, <2>2, BeginInv
  <1>3. CASE ConfirmBookingBegin(k)
    <2>1. PICK c \in Customers, q \in SeatLists : Begin(k, Request("confirm", c, q, clock))
      BY <1>3 DEF ConfirmBookingBegin
    <2>2. Fresh(Request("confirm", c, q, clock))
      BY <1>1, ListSeatsType DEF Fresh, Request, TxType
    <2> QED BY <2>1, <2>2, BeginInv
  <1>4. ASSUME NEW S \in SUBSET Seats, NEW q \in Orders(S) PROVE q \in Seq(Seats)
    <2>1. IsFiniteSet(S) /\ Cardinality(S) \in Nat
      BY LockingAssumption, FS_Subset, FS_CardinalityType
    <2>2. q \in [1 .. Cardinality(S) -> Seats]
      BY DEF Orders
    <2> QED BY <2>1, <2>2
  <1>5. ASSUME NEW req, req \in TxType, req.kind \in {"release", "cleanup"}, req.got = {},
               ~req.bad, req.at = clock, req.step = "select",
               req.kind = "release" => req.who \in Customers, DeleteBegin(k, req)
        PROVE  LockInv'
    <2>1. PICK q \in Orders({s \in Seats : Matches(req, s)}) : Begin(k, [req EXCEPT !.list = q, !.todo = q])
      BY <1>5 DEF DeleteBegin
    <2>2. q \in Seq(Seats)
      BY <1>4
    <2>3. Fresh([req EXCEPT !.list = q, !.todo = q])
      BY <1>5, <2>2 DEF Fresh, TxType
    <2> QED BY <2>1, <2>3, BeginInv
  <1>6. CASE ReleaseSeatsBegin(k)
    <2>1. PICK c \in Customers, q \in SeatLists : DeleteBegin(k, Request("release", c, q, clock))
      BY <1>6 DEF ReleaseSeatsBegin
    <2> DEFINE req == Request("release", c, q, clock)
    <2>2. req \in TxType /\ req.kind = "release" /\ req.got = {} /\ ~req.bad /\ req.at = clock
          /\ req.step = "select" /\ req.who \in Customers
      BY <1>1, ListSeatsType DEF Request, TxType
    <2> HIDE DEF req
    <2> QED BY <2>1, <2>2, <1>5 DEF req
  <1>7. CASE CleanupExpiredHoldsBegin(k)
    <2> DEFINE req == Request("cleanup", NoCustomer, << >>, clock)
    <2>1. DeleteBegin(k, req)
      BY <1>7 DEF CleanupExpiredHoldsBegin
    <2>2. req \in TxType /\ req.kind = "cleanup" /\ req.got = {} /\ ~req.bad /\ req.at = clock
          /\ req.step = "select"
      BY <1>1, ListSeatsType DEF Request, TxType
    <2> HIDE DEF req
    <2> QED BY <2>1, <2>2, <1>5
  <1> QED BY <1>2, <1>3, <1>6, <1>7 DEF Arrive

(* SELECT ... FOR UPDATE of holdSeats preserves the invariant.              *)
LEMMA HoldSeatsSelectInv ==
  ASSUME LockInv, NEW k \in Conns, HoldSeatsSelect(k)
  PROVE  LockInv'
  <1> DEFINE s == Next1(k)
  <1>1. /\ tx[k].kind = "hold" /\ tx[k].step = "select" /\ tx[k].todo # << >> /\ ~Waits(k)
        /\ UNCHANGED <<clock, row, bookings>>
    BY DEF HoldSeatsSelect
  <1>2. s \in Seats /\ tx[k] \in TxType
    BY <1>1, HeadTail DEF LockInv, TypeOK, TxType, Next1
  <1>3. s \in tx[k].got => Secured(k, s) /\ Seen(k, s).status = "HELD"
    BY <1>1 DEF LockInv, SecuredStaysTrue, Seen, HeldRow
  <1>4. s \notin tx[k].got => Seen(k, s) = row[s]
    BY DEF Seen
  <1>5. CASE Seen(k, s).status = "ABSENT"
    <2>1. tx' = [tx EXCEPT ![k].step = "insert"] /\ UNCHANGED lock
      BY <1>5 DEF HoldSeatsSelect
    <2>2. /\ tx' \in [Conns -> TxType] /\ tx'[k] = [tx[k] EXCEPT !.step = "insert"]
          /\ \A j \in Conns \ {k} : tx'[j] = tx[j]
      BY <2>1, <1>2 DEF LockInv, TypeOK, TxType
    <2>3. /\ tx'[k].kind = tx[k].kind /\ tx'[k].who = tx[k].who /\ tx'[k].todo = tx[k].todo
          /\ tx'[k].list = tx[k].list
          /\ tx'[k].asked = tx[k].asked /\ tx'[k].got = tx[k].got /\ tx'[k].at = tx[k].at
          /\ tx'[k].bad = tx[k].bad /\ tx'[k].step = "insert"
      BY <2>2, <1>2 DEF TxType
    <2>4. \A j \in Conns : /\ tx'[j].kind = tx[j].kind /\ tx'[j].who = tx[j].who
                           /\ tx'[j].asked = tx[j].asked /\ tx'[j].got = tx[j].got
                           /\ tx'[j].at = tx[j].at /\ tx'[j].list = tx[j].list
                           /\ tx'[j].todo = tx[j].todo
      BY <2>2, <2>3
    <2>5. TypeOK'
      BY <1>1, <2>1, <2>2 DEF LockInv, TypeOK
    <2>6. IdleClean' /\ RequestOK'
      <3>1. clock' = clock /\ \A j \in Conns \ {k} : tx'[j] = tx[j]
        BY <1>1, <2>2
      <3>2. IdleClean'
        BY <1>1, <2>3, <3>1 DEF LockInv, IdleClean
      <3>3. RequestOK'
        BY <1>1, <2>3, <3>1 DEF LockInv, RequestOK
      <3> QED BY <3>2, <3>3
    <2>7. NoLeakedLock' /\ InsertHoldsLock'
      BY <1>1, <2>1, <2>4 DEF LockInv, NoLeakedLock, InsertHoldsLock, TypeOK
    <2>8. SecuredStaysTrue'
      BY <1>1, <2>1, <2>4
      DEF LockInv, SecuredStaysTrue, Secured, IsAvailable, Confirmable, Matches
    <2>9. LocksVisited'
      <3>1. ASSUME NEW j \in Conns PROVE Ahead(tx'[j]) /\ Visited(tx'[j]) = Visited(tx[j])
        <4>1. Ahead(tx[j]) /\ tx'[j].list = tx[j].list /\ tx'[j].todo = tx[j].todo
          BY <2>4 DEF LockInv, LocksVisited
        <4> QED BY ONLY <4>1 DEF Ahead, Visited
      <3>2. \A r \in Seats : lock[r] # NoConn => lock[r] \in Conns
        BY DEF LockInv, TypeOK
      <3> QED BY <2>1, <3>1, <3>2 DEF LockInv, LocksVisited
    <2> QED BY <2>5, <2>6, <2>7, <2>8, <2>9 DEF LockInv
  <1>6. CASE Seen(k, s).status # "ABSENT"
    <2>1. Take(k, s) /\ (lock[s] \in {NoConn, k}) /\ lock'[s] = k
      <3>1. Take(k, s) /\ lock'[s] = k
        BY <1>6, <1>2 DEF HoldSeatsSelect, Take, LockInv, TypeOK
      <3>2. CASE s \in tx[k].got
        BY <3>1, <3>2, <1>3 DEF Secured
      <3>3. CASE s \notin tx[k].got
        <4>1. tx[k].step # "insert" /\ row[s].status # "ABSENT"
          BY <3>3, <1>1, <1>4, <1>6
        <4> QED BY <4>1, <3>1, <1>1, NotWaiting
      <3> QED BY <3>2, <3>3
    <2>2. s \in tx[k].got \/ row[s].status # "ABSENT"
      BY <1>4, <1>6
    <2> HIDE DEF s
    <2>3. CASE IsAvailable(Seen(k, s))
      <3>1. Advance(k, {s}, FALSE, "select")
        BY <1>6, <2>3 DEF HoldSeatsSelect, s
      <3>2. row[s].status = "ABSENT" \/ IsAvailable(row[s])
        BY <1>1, <1>3, <1>4, <2>3 DEF Secured
      <3> QED BY <1>1, <2>1, <2>2, <3>1, <3>2, AdvanceInv DEF s
    <2>4. CASE ~IsAvailable(Seen(k, s))
      <3>1. Advance(k, {}, TRUE, "select")
        BY <1>6, <2>4 DEF HoldSeatsSelect, s
      <3> QED BY <1>1, <2>1, <2>2, <3>1, AdvanceInv DEF s
    <2> QED BY <2>3, <2>4
  <1> QED BY <1>5, <1>6

(* INSERT ... ON CONFLICT of holdSeats preserves the invariant.             *)
LEMMA HoldSeatsInsertInv ==
  ASSUME LockInv, NEW k \in Conns, HoldSeatsInsert(k)
  PROVE  LockInv'
  <1> DEFINE s == Next1(k)
  <1>1. /\ tx[k].kind = "hold" /\ tx[k].step = "insert" /\ tx[k].todo # << >> /\ ~Waits(k)
        /\ UNCHANGED <<clock, row, bookings>>
    BY DEF HoldSeatsInsert, LockInv, RequestOK
  <1>2. s \in Seats
    BY <1>1, HeadTail DEF LockInv, TypeOK, TxType, Next1
  <1> HIDE DEF s
  <1>3. CASE row[s].status = "ABSENT"
    <2>1. Take(k, s) /\ Advance(k, {s}, FALSE, "select")
      BY <1>3 DEF HoldSeatsInsert, s
    <2>2. lock[s] \in {NoConn, k}
      BY <1>1, <1>3, NotWaiting DEF s
    <2>3. lock'[s] = k
      BY <2>1, <1>2 DEF Take, LockInv, TypeOK
    <2> QED BY <1>1, <1>3, <2>1, <2>2, <2>3, AdvanceInv DEF s
  <1>4. CASE row[s].status # "ABSENT"
    <2>1. Advance(k, {}, TRUE, "select") /\ lock' = lock
      BY <1>4 DEF HoldSeatsInsert, s
    <2> QED BY <1>1, <2>1, AdvanceInv
  <1> QED BY <1>3, <1>4

(* The check of a seat by confirmBooking preserves the invariant.           *)
LEMMA ConfirmBookingCheckInv ==
  ASSUME LockInv, NEW k \in Conns, ConfirmBookingCheck(k)
  PROVE  LockInv'
  <1> DEFINE s == Next1(k)
  <1>1. /\ tx[k].kind = "confirm" /\ tx[k].todo # << >> /\ ~Waits(k)
    BY DEF ConfirmBookingCheck
  <1>2. s \in Seats
    BY <1>1, HeadTail DEF LockInv, TypeOK, TxType, Next1
  <1> HIDE DEF s
  <1>3. CASE Confirmable(row[s], tx[k].who, tx[k].at)
    <2>1. Take(k, s) /\ Advance(k, {s}, FALSE, "select") /\ UNCHANGED <<clock, row, bookings>>
      BY <1>3 DEF ConfirmBookingCheck, s
    <2>2. row[s].status # "ABSENT" /\ tx[k].step # "insert"
      BY <1>1, <1>3 DEF Confirmable, LockInv, RequestOK
    <2>3. lock[s] \in {NoConn, k}
      BY <1>1, <2>2, NotWaiting DEF s
    <2>4. lock'[s] = k
      BY <2>1, <1>2 DEF Take, LockInv, TypeOK
    <2> QED BY <1>1, <1>3, <2>1, <2>2, <2>3, <2>4, AdvanceInv DEF s
  <1>4. CASE ~Confirmable(row[s], tx[k].who, tx[k].at)
    <2>1. Rollback(k)
      BY <1>4 DEF ConfirmBookingCheck, s
    <2> QED BY <2>1, RollbackInv
  <1> QED BY <1>3, <1>4

(* A row visited by a DELETE preserves the invariant.                       *)
LEMMA DeleteVisitInv ==
  ASSUME LockInv, NEW k \in Conns, DeleteVisit(k)
  PROVE  LockInv'
  <1> DEFINE s == Next1(k)
  <1>1. /\ tx[k].kind \in {"release", "cleanup"} /\ tx[k].todo # << >> /\ ~Waits(k)
        /\ UNCHANGED <<clock, row, bookings>>
    BY DEF DeleteVisit
  <1>2. s \in Seats
    BY <1>1, HeadTail DEF LockInv, TypeOK, TxType, Next1
  <1> HIDE DEF s
  <1>3. CASE Matches(tx[k], s)
    <2>1. Take(k, s) /\ Advance(k, {s}, FALSE, "select")
      BY <1>3 DEF DeleteVisit, s
    <2>2. row[s].status # "ABSENT" /\ tx[k].step # "insert"
      BY <1>1, <1>3 DEF Matches, LockInv, RequestOK
    <2>3. lock[s] \in {NoConn, k}
      BY <1>1, <2>2, NotWaiting DEF s
    <2>4. lock'[s] = k
      BY <2>1, <1>2 DEF Take, LockInv, TypeOK
    <2> QED BY <1>1, <1>3, <2>1, <2>2, <2>3, <2>4, AdvanceInv DEF s
  <1>4. CASE ~Matches(tx[k], s)
    <2>1. Advance(k, {}, FALSE, "select") /\ lock' = lock
      BY <1>4 DEF DeleteVisit, s
    <2> QED BY <1>1, <2>1, AdvanceInv
  <1> QED BY <1>3, <1>4

(* Every later statement of a request preserves the invariant.              *)
LEMMA ProceedInv ==
  ASSUME LockInv, NEW k \in Conns, Proceed(k)
  PROVE  LockInv'
  <1>1. CASE HoldSeatsSelect(k) \/ HoldSeatsInsert(k) \/ ConfirmBookingCheck(k) \/ DeleteVisit(k)
    BY <1>1, HoldSeatsSelectInv, HoldSeatsInsertInv, ConfirmBookingCheckInv, DeleteVisitInv
  <1>2. CASE HoldSeatsConflict(k)
    BY <1>2, RollbackInv DEF HoldSeatsConflict
  <1>3. CASE HoldSeatsCommit(k)
    <2>1. tx[k].who \in Customers /\ bookings' \in Seq(Booking)
      BY <1>3 DEF HoldSeatsCommit, LockInv, RequestOK, TypeOK
    <2>2. HeldRow(tx[k].who, tx[k].at + HoldTicks) \in SeatRow
      BY <2>1, NewRows DEF LockInv
    <2> QED BY <1>3, <2>1, <2>2, CommitInv DEF HoldSeatsCommit
  <1>4. CASE ConfirmBookingCommit(k)
    <2>1. tx[k].who \in Customers /\ tx[k].asked \in SUBSET Seats
      BY <1>4 DEF ConfirmBookingCommit, LockInv, RequestOK, TypeOK, TxType
    <2>2. bookings' \in Seq(Booking)
      BY <1>4, <2>1 DEF ConfirmBookingCommit, LockInv, TypeOK, Booking
    <2>3. BookedRow(tx[k].who) \in SeatRow
      BY <2>1, NewRows DEF LockInv
    <2> QED BY <1>4, <2>2, <2>3, CommitInv DEF ConfirmBookingCommit
  <1>5. CASE DeleteCommit(k)
    <2>1. bookings' \in Seq(Booking) /\ NoRow \in SeatRow
      BY <1>5, NewRows DEF DeleteCommit, LockInv, TypeOK
    <2> QED BY <1>5, <2>1, CommitInv DEF DeleteCommit
  <1> QED BY <1>1, <1>2, <1>3, <1>4, <1>5 DEF Proceed

(* Every step preserves the invariant.                                      *)
LEMMA StepInv == LockInv /\ [Next]_vars => LockInv'
  <1> SUFFICES ASSUME LockInv, [Next]_vars PROVE LockInv'
    OBVIOUS
  <1>1. CASE Tick
    BY <1>1, TickInv
  <1>2. ASSUME NEW k \in Conns, Arrive(k) \/ Proceed(k) PROVE LockInv'
    BY <1>2, ArriveInv, ProceedInv
  <1>3. ASSUME NEW k \in Conns, DeadlockAbort(k) \/ StatementFails(k) PROVE LockInv'
    BY <1>3, RollbackInv DEF DeadlockAbort, StatementFails
  <1>4. CASE UNCHANGED vars
    BY <1>4 DEF vars, LockInv, TypeOK, IdleClean, RequestOK, NoLeakedLock, LocksVisited,
                SecuredStaysTrue, Secured, IsAvailable, Confirmable, Matches, InsertHoldsLock
  <1> QED BY <1>1, <1>2, <1>3, <1>4 DEF Next

-----------------------------------------------------------------------------

(* The invariant holds in every reachable state: types, idle connections   *)
(* that hold nothing, well-formed requests, locks only on what their        *)
(* requests have visited, secured seats that stay secured, and inserts that *)
(* hold the lock of what they wrote.                                        *)
THEOREM LockingInv == Spec => []LockInv
  <1> QED BY InitInv, StepInv, PTL DEF Spec

(* The variables of the seat endpoints keep their types, whatever the      *)
(* statements of concurrent requests do.                                   *)
THEOREM LockingTypeCorrect == Spec => []TypeOK
  <1>1. LockInv => TypeOK
    BY DEF LockInv
  <1> QED BY <1>1, LockingInv, PTL

(* What holdSeats, confirmBooking and the DELETE statements checked about  *)
(* a seat is still true when they commit, for any number of requests.      *)
THEOREM LockingSecures == Spec => []SecuredStaysTrue
  <1>1. LockInv => SecuredStaysTrue
    BY DEF LockInv
  <1> QED BY <1>1, LockingInv, PTL

-----------------------------------------------------------------------------
(* Requests that wait for each other. *)

(* A request whose list is sorted waits for a seat after those it has      *)
(* visited, so after every seat it has locked.                             *)
LEMMA WaitsForLater ==
  ASSUME LockInv, NEW r \in Ranks, NEW j \in Conns, InOrder(r, tx[j].list), Waits(j),
         NEW s \in Seats, lock[s] = j
  PROVE  r[s] < r[Next1(j)]
  <1>1. PICK list \in Seq(Seats), todo \in Seq(Seats) : list = tx[j].list /\ todo = tx[j].todo
    BY DEF LockInv, TypeOK, TxType
  <1>2. /\ todo # << >> /\ Head(todo) = Next1(j) /\ Ahead(tx[j]) /\ s # Head(todo)
        /\ s \in Visited(tx[j]) /\ InOrder(r, list)
    BY <1>1, LockingAssumption DEF LockInv, LocksVisited, Waits, LockedByOther, Next1
  <1>3. PICK n : n = Len(list) - Len(todo)
    OBVIOUS
  <1>4. /\ list \in Seq(Seats) /\ todo \in Seq(Seats) /\ todo # << >>
        /\ Len(todo) <= Len(list) /\ \A x \in 1 .. Len(todo) : todo[x] = list[x + n]
    BY <1>1, <1>2, <1>3 DEF Ahead
  <1>5. n \in Nat /\ n + 1 \in 1 .. Len(list) /\ list[n + 1] = Head(todo)
    BY ONLY <1>3, <1>4, NextIsLater
  <1>6. PICK i \in 1 .. n : s = list[i]
    BY <1>1, <1>2, <1>3 DEF Visited
  <1>7. /\ i \in DOMAIN list /\ n + 1 \in DOMAIN list /\ i < n + 1
        /\ Head(todo) \in Seats
    BY <1>5, <1>6
  <1>8. r[s] <= r[Head(todo)]
    BY <1>2, <1>5, <1>6, <1>7 DEF InOrder
  <1>9. r[s] # r[Head(todo)] /\ r[s] \in Int /\ r[Head(todo)] \in Int
    BY <1>2, <1>7 DEF Ranks
  <1> QED BY <1>2, <1>8, <1>9

(* A rank takes a least value on a set of seats.                           *)
LEMMA FirstSeat ==
  ASSUME NEW r \in Ranks, NEW S \in SUBSET Seats, S # {}
  PROVE  \E s \in S : \A t \in S : ~(r[t] < r[s])
  <1> DEFINE Less == {x \in Nat \X Nat : x[1] < x[2]}
             Values == {r[s] : s \in S}
  <1>1. IsWellFoundedOn(Less, Nat)
    BY NatLessThanWellFounded DEF OpToRel
  <1>2. \A m, n \in Nat : m < n => <<m, n>> \in Less
    OBVIOUS
  <1>3. Values \subseteq Nat /\ Values # {}
    BY DEF Ranks
  <1>4. PICK n \in Values : \A m \in Values : <<m, n>> \notin Less
    <2> HIDE DEF Less, Values
    <2> QED BY <1>1, <1>3, WFMin
  <1>5. \A m \in Values : ~(m < n)
    <2> HIDE DEF Less, Values
    <2> QED BY <1>2, <1>3, <1>4
  <1> QED BY <1>4, <1>5

(* Of requests in one order, none is a deadlock victim: in a circle of     *)
(* waiting requests, take the one that waits for the first seat in the     *)
(* order; the seat it is itself waited for is one it has locked before, so *)
(* a seat that comes even earlier is waited for.                           *)
LEMMA OrderBreaksCircles == LockInv => SameOrderNoDeadlock
  <1> SUFFICES ASSUME LockInv, NEW r \in Ranks, \A k \in Conns : InOrder(r, tx[k].list),
                      NEW k \in Conns, Deadlocked(k)
               PROVE  FALSE
    BY DEF SameOrderNoDeadlock
  <1>1. PICK K \in SUBSET Conns : /\ k \in K /\ \A j \in K : Waits(j)
                                 /\ {BlockerOf(j) : j \in K} = K
    BY DEF Deadlocked
  <1> DEFINE Wanted == {Next1(j) : j \in K}
  <1>2. \A j \in K : Next1(j) \in Seats
    BY <1>1, HeadTail DEF Waits, LockInv, TypeOK, TxType, Next1
  <1>3. PICK s \in Wanted : \A t \in Wanted : ~(r[t] < r[s])
    <2>1. Wanted \in SUBSET Seats /\ Wanted # {}
      BY <1>1, <1>2
    <2> HIDE DEF Wanted
    <2> QED BY <2>1, FirstSeat
  <1>4. PICK j \in K : s = Next1(j)
    BY <1>3
  <1>5. PICK i \in K : BlockerOf(i) = j
    BY <1>1
  <1>6. Next1(i) \in Wanted /\ lock[Next1(i)] = j
    BY <1>5 DEF BlockerOf
  <1>7. r[Next1(i)] < r[Next1(j)]
    BY <1>1, <1>2, <1>4, <1>5, <1>6, WaitsForLater
  <1> QED BY <1>3, <1>4, <1>6, <1>7

(* Requests whose lists name the seats in one order never deadlock, for    *)
(* any number of them: holdSeats, confirmBooking and the DELETE statements *)
(* lock the seats in the order of the list they go through.                *)
THEOREM LockingSameOrderIsSafe == Spec => []SameOrderNoDeadlock
  <1> QED BY OrderBreaksCircles, LockingInv, PTL

-----------------------------------------------------------------------------
(* Whole requests. *)

(* A request that ends leaves the table alone, or has all its seats.       *)
EndsWhole ==
  \A k \in Conns : tx[k].kind \in {"hold", "confirm"} /\ tx'[k].kind = "idle" =>
    \/ row' = row
    \/ \A s \in tx[k].asked : row'[s].by = tx[k].who

(* A COMMIT gives a request that met no bad seat all it asked for.         *)
LEMMA CommitIsWhole ==
  ASSUME LockInv, NEW k \in Conns, NEW r, Commit(k, r), r.by = tx[k].who,
         tx[k].kind \in {"hold", "confirm"}, tx[k].todo = << >>, ~tx[k].bad
  PROVE  EndsWhole
  <1>1. tx[k].asked = tx[k].got
    BY ListSeatsType DEF LockInv, RequestOK
  <1>2. \A s \in tx[k].asked : row'[s].by = tx[k].who
    BY <1>1 DEF Commit, LockInv, TypeOK, TxType
  <1>3. \A j \in Conns \ {k} : tx'[j] = tx[j]
    BY DEF Commit, LockInv, TypeOK
  <1> QED BY <1>2, <1>3 DEF EndsWhole

LEMMA StepEndsWhole == LockInv /\ [Next]_vars => EndsWhole
  <1> SUFFICES ASSUME LockInv, [Next]_vars PROVE EndsWhole
    OBVIOUS
  <1>1. CASE UNCHANGED row
    BY <1>1 DEF EndsWhole
  <1>2. ASSUME NEW k \in Conns, Proceed(k), row' # row PROVE EndsWhole
    <2>1. CASE HoldSeatsCommit(k)
      BY <2>1, CommitIsWhole DEF HoldSeatsCommit, HeldRow
    <2>2. CASE ConfirmBookingCommit(k)
      <3>1. ~tx[k].bad
        BY <2>2 DEF ConfirmBookingCommit, LockInv, RequestOK
      <3> QED BY <2>2, <3>1, CommitIsWhole DEF ConfirmBookingCommit, BookedRow
    <2>3. CASE DeleteCommit(k)
      <3>1. \A j \in Conns \ {k} : tx'[j] = tx[j]
        BY <2>3 DEF DeleteCommit, Commit, LockInv, TypeOK
      <3> QED BY <2>3, <3>1 DEF DeleteCommit, EndsWhole
    <2> QED
      BY <1>2, <2>1, <2>2, <2>3
      DEF Proceed, HoldSeatsSelect, HoldSeatsInsert, HoldSeatsConflict, ConfirmBookingCheck,
          DeleteVisit, Rollback
  <1>3. \A k \in Conns : Arrive(k) \/ DeadlockAbort(k) \/ StatementFails(k) => UNCHANGED row
    BY DEF Arrive, HoldSeatsBegin, ConfirmBookingBegin, ReleaseSeatsBegin, CleanupExpiredHoldsBegin,
           DeleteBegin, Begin, DeadlockAbort, StatementFails, Rollback
  <1> QED BY <1>1, <1>2, <1>3 DEF Next, Tick, vars

(* A hold or a confirmation gets all its seats or changes nothing, also    *)
(* with a seat named twice, a failed statement or a deadlock.              *)
THEOREM LockingIsAllOrNothing == Spec => AllOrNothing
  <1>1. LockInv /\ [Next]_vars => [EndsWhole]_vars
    BY StepEndsWhole
  <1>2. Spec => [][EndsWhole]_vars
    BY <1>1, LockingInv, PTL DEF Spec
  <1> QED BY <1>2 DEF AllOrNothing, EndsWhole

-----------------------------------------------------------------------------
(* Refinement: the statements implement the operations of SeatLedger. *)

Late(r, t) == r.status = "HELD" /\ r.until < t
Project(r, t) == [status |-> r.status, by |-> r.by, lapsed |-> r.status = "HELD" /\ r.until < t]
LRow == [s \in Seats |-> Project(row[s], clock)]

(* The ledger's row of a seat whose lapsed bit is known. *)
View(r, late) == [status |-> r.status, by |-> r.by, lapsed |-> late]

(* What the refinement mapping shows of a row and of each row written.      *)
LEMMA Views ==
  ASSUME NEW r, NEW t
  PROVE  /\ Late(r, t) => Project(r, t) = View(r, TRUE)
         /\ ~Late(r, t) => Project(r, t) = View(r, FALSE)
  <1>1. Project(r, t) = View(r, Late(r, t))
    BY DEF Project, View, Late
  <1>2. ASSUME Late(r, t) PROVE Project(r, t) = View(r, TRUE)
    <2>1. Late(r, t) = TRUE
      BY <1>2 DEF Late
    <2> QED BY <1>1, <2>1
  <1>3. ASSUME ~Late(r, t) PROVE Project(r, t) = View(r, FALSE)
    <2>1. Late(r, t) = FALSE
      BY <1>3 DEF Late
    <2> QED BY <1>1, <2>1
  <1> QED BY <1>2, <1>3

(* Initial states map to initial states of the ledger.                      *)
LEMMA InitRefines == Init => Ledger!LedgerInit
  <1> SUFFICES ASSUME Init PROVE Ledger!LedgerInit
    OBVIOUS
  <1>1. ASSUME NEW s \in Seats PROVE LRow[s] \in {Ledger!NoRow, Ledger!OpenRow}
    <2>1. row[s] \in {NoRow, OpenRow}
      BY DEF Init
    <2>2. LRow[s] = View(row[s], FALSE)
      <3>1. ~Late(row[s], clock)
        BY <2>1 DEF Late, NoRow, OpenRow
      <3> QED BY <3>1, Views DEF LRow
    <2>3. CASE row[s] = NoRow
      <3>1. LRow[s] = Ledger!NoRow
        BY <2>2, <2>3 DEF View, NoRow, Ledger!NoRow
      <3> QED BY <3>1
    <2>4. CASE row[s] = OpenRow
      <3>1. LRow[s] = Ledger!OpenRow
        BY <2>2, <2>4 DEF View, OpenRow, Ledger!OpenRow
      <3> QED BY <3>1
    <2> QED BY <2>1, <2>3, <2>4
  <1>2. LRow \in [Seats -> {Ledger!NoRow, Ledger!OpenRow}]
    BY <1>1 DEF LRow
  <1>3. bookings = << >>
    BY DEF Init
  <1> QED BY <1>2, <1>3 DEF Ledger!LedgerInit, LRow, Project

(* A step that leaves rows, bookings and clock alone is a stutter.          *)
LEMMA StutterRefines ==
  ASSUME UNCHANGED <<clock, row, bookings>> PROVE UNCHANGED Ledger!ledgerVars
  BY DEF Ledger!ledgerVars

(* A tick is a Lapse of the holds it expires, or a stutter.                 *)
LEMMA TickRefines ==
  ASSUME LockInv, Tick PROVE [Ledger!LedgerNext]_(Ledger!ledgerVars)
  <1>0. PICK L \in SUBSET Seats :
          L = {s \in Seats : Late(row[s], clock + 1) /\ ~Late(row[s], clock)}
    OBVIOUS
  <1>1. clock \in Nat /\ clock' = clock + 1 /\ row' = row /\ bookings' = bookings
    BY LockingAssumption DEF LockInv, TypeOK, Tick
  <1>2. \A s \in Seats : row[s].until \in Nat
    BY LockingAssumption DEF LockInv, TypeOK, SeatRow, Times
  <1>3. LRow' = [s \in Seats |-> Project(row[s], clock + 1)]
    BY <1>1 DEF LRow, Project
  <1>4. ASSUME NEW s \in L
        PROVE  /\ LRow[s] = View(row[s], FALSE) /\ row[s].status = "HELD"
               /\ Project(row[s], clock + 1) = View(row[s], TRUE)
    BY <1>0, Views DEF Late, LRow
  <1>5. ASSUME NEW s \in Seats \ L PROVE Project(row[s], clock + 1) = LRow[s]
    <2>1. CASE Late(row[s], clock)
      <3>1. Late(row[s], clock + 1)
        BY <2>1, <1>1, <1>2 DEF Late
      <3> QED BY <2>1, <3>1, Views DEF LRow
    <2>2. CASE ~Late(row[s], clock)
      BY <2>2, <1>0, Views DEF LRow
    <2> QED BY <2>1, <2>2
  <1>6. CASE L = {}
    <2>1. LRow' = LRow
      BY <1>3, <1>5, <1>6 DEF LRow
    <2> QED BY <2>1, <1>1 DEF LRow, Project, Ledger!ledgerVars
  <1>7. CASE L # {}
    <2>2. ASSUME NEW s \in L PROVE LRow[s].status = "HELD" /\ ~LRow[s].lapsed
      <3>1. View(row[s], FALSE).lapsed = FALSE /\ View(row[s], FALSE).status = row[s].status
        BY DEF View
      <3> QED BY <3>1, <1>4, Zenon
    <2>3. ASSUME NEW s \in L
          PROVE Project(row[s], clock + 1) = Ledger!HeldRow(LRow[s].by, TRUE)
      <3>1. View(row[s], FALSE).by = row[s].by
        BY DEF View
      <3>2. LRow[s].by = row[s].by /\ Project(row[s], clock + 1) = View(row[s], TRUE)
        BY <3>1, <1>4, Zenon
      <3>3. View(row[s], TRUE) = Ledger!HeldRow(row[s].by, TRUE)
        BY <1>4 DEF View, Ledger!HeldRow
      <3> QED BY <3>2, <3>3, Zenon
    <2>4. LRow' = [s \in Seats |-> IF s \in L THEN Ledger!HeldRow(LRow[s].by, TRUE) ELSE LRow[s]]
      BY <1>3, <1>5, <2>3
    <2>5. Ledger!Lapse(L)
      BY <1>1, <1>7, <2>2, <2>4 DEF Ledger!Lapse, LRow, Project
    <2>6. Ledger!LedgerNext
      BY <2>5 DEF Ledger!LedgerNext
    <2> QED BY <2>6
  <1> QED BY <1>6, <1>7

(* The seats a transaction commits, as a set that does not change. *)
LEMMA CommitRefines ==
  ASSUME LockInv, NEW k \in Conns, NEW r, Commit(k, r), NEW L \in SUBSET Seats, L = tx[k].got
  PROVE  LRow' = Ledger!With(L, Project(r, clock))
  <1>1. row' = [s \in Seats |-> IF s \in L THEN r ELSE row[s]] /\ clock' = clock
    BY DEF Commit
  <1>2. LRow' = [s \in Seats |-> IF s \in L THEN Project(r, clock) ELSE LRow[s]]
    BY <1>1 DEF LRow
  <1> QED BY <1>2 DEF Ledger!With, LRow, Project

(* The COMMIT of holdSeats is HoldSeats.                                    *)
LEMMA HoldCommitRefines ==
  ASSUME LockInv, NEW k \in Conns, HoldSeatsCommit(k)
  PROVE  Ledger!LedgerNext
  <1>1. PICK L \in SUBSET Seats, c \in Customers : L = tx[k].got /\ c = tx[k].who
    BY DEF LockInv, TypeOK, TxType, RequestOK, HoldSeatsCommit
  <1> DEFINE r == HeldRow(c, tx[k].at + HoldTicks)
  <1>2. Commit(k, r) /\ bookings' = bookings
    BY <1>1 DEF HoldSeatsCommit
  <1>3. L # {}
    BY <1>1, ListSeatsType DEF HoldSeatsCommit, LockInv, RequestOK
  <1>4. ASSUME NEW s \in L PROVE Ledger!Takeable(LRow[s])
    <2>1. row[s].status = "ABSENT" \/ IsAvailable(row[s])
      BY <1>1 DEF HoldSeatsCommit, LockInv, SecuredStaysTrue, Secured
    <2>2. CASE Late(row[s], clock)
      <3>1. LRow[s] = View(row[s], TRUE) /\ row[s].status = "HELD"
        BY <2>2, Views DEF LRow, Late
      <3>2. View(row[s], TRUE).status = row[s].status /\ View(row[s], TRUE).lapsed = TRUE
        BY DEF View
      <3> QED BY <3>1, <3>2, Zenon DEF Ledger!Takeable
    <2>3. CASE ~Late(row[s], clock)
      <3>1. row[s].status \in {"ABSENT", "AVAILABLE"}
        BY <2>1, <2>3 DEF IsAvailable, Late
      <3>2. LRow[s].status = row[s].status
        BY DEF LRow, Project
      <3> QED BY <3>1, <3>2 DEF Ledger!Takeable
    <2> QED BY <2>2, <2>3
  <1>5. PICK late \in BOOLEAN : Project(r, clock) = Ledger!HeldRow(c, late)
    <2>1. r.status = "HELD" /\ r.by = c
      BY DEF HeldRow
    <2>2. ASSUME NEW late \in BOOLEAN PROVE View(r, late) = Ledger!HeldRow(c, late)
      BY <2>1 DEF View, Ledger!HeldRow
    <2> HIDE DEF r
    <2> QED BY <2>2, Views
  <1>6. LRow' = Ledger!With(L, Ledger!HeldRow(c, late))
    BY <1>1, <1>2, <1>5, CommitRefines
  <1>7. Ledger!HoldSeats(c, L)
    BY <1>2, <1>3, <1>4, <1>6 DEF Ledger!HoldSeats, LRow, Project
  <1> QED BY <1>7 DEF Ledger!LedgerNext

(* The COMMIT of confirmBooking is ConfirmBooking.                          *)
LEMMA ConfirmCommitRefines ==
  ASSUME LockInv, NEW k \in Conns, ConfirmBookingCommit(k)
  PROVE  Ledger!LedgerNext
  <1>1. PICK L \in SUBSET Seats, c \in Customers : L = tx[k].got /\ c = tx[k].who
    BY DEF LockInv, TypeOK, TxType, RequestOK, ConfirmBookingCommit
  <1>2. L # {} /\ tx[k].asked = L
    BY <1>1, ListSeatsType DEF ConfirmBookingCommit, LockInv, RequestOK
  <1>3. /\ Commit(k, BookedRow(c))
        /\ bookings' = Append(bookings, [who |-> c, seats |-> L, pay |-> NoPayment])
    BY <1>1, <1>2 DEF ConfirmBookingCommit
  <1>4. ASSUME NEW s \in L PROVE Ledger!HeldBy(LRow[s], c)
    <2>1. Confirmable(row[s], c, tx[k].at)
      BY <1>1 DEF ConfirmBookingCommit, LockInv, SecuredStaysTrue, Secured
    <2>2. LRow[s].status = row[s].status /\ LRow[s].by = row[s].by
      BY DEF LRow, Project
    <2> QED BY <2>1, <2>2 DEF Confirmable, Ledger!HeldBy
  <1>5. Project(BookedRow(c), clock) = Ledger!BookedRow(c)
    <2>1. ~Late(BookedRow(c), clock) /\ View(BookedRow(c), FALSE) = Ledger!BookedRow(c)
      BY DEF Late, View, BookedRow, Ledger!BookedRow
    <2> QED BY <2>1, Views
  <1>6. LRow' = Ledger!With(L, Ledger!BookedRow(c))
    BY <1>1, <1>3, <1>5, CommitRefines
  <1>7. Ledger!ConfirmBooking(c, L)
    BY <1>2, <1>3, <1>4, <1>6 DEF Ledger!ConfirmBooking, LRow, Project
  <1> QED BY <1>7 DEF Ledger!LedgerNext

(* The end of a DELETE is ReleaseSeats or CleanupExpiredHolds.              *)
LEMMA DeleteCommitRefines ==
  ASSUME LockInv, NEW k \in Conns, DeleteCommit(k)
  PROVE  Ledger!LedgerNext
  <1>1. PICK L \in SUBSET Seats : L = tx[k].got
    BY DEF LockInv, TypeOK, TxType
  <1>2. Commit(k, NoRow) /\ bookings' = bookings
    BY DEF DeleteCommit
  <1>3. Project(NoRow, clock) = Ledger!NoRow
    <2>1. ~Late(NoRow, clock) /\ View(NoRow, FALSE) = Ledger!NoRow
      BY DEF Late, View, NoRow, Ledger!NoRow
    <2> QED BY <2>1, Views
  <1>4. LRow' = Ledger!With(L, Ledger!NoRow)
    BY <1>1, <1>2, <1>3, CommitRefines
  <1>5. ASSUME NEW s \in L PROVE Matches(tx[k], s)
    BY <1>1 DEF DeleteCommit, LockInv, SecuredStaysTrue, Secured
  <1>6. CASE tx[k].kind = "release"
    <2>1. PICK c \in Customers : c = tx[k].who
      BY <1>6 DEF LockInv, RequestOK
    <2>2. ASSUME NEW s \in L PROVE Ledger!HeldBy(LRow[s], c)
      <3>1. row[s].status = "HELD" /\ row[s].by = c
        BY <1>5, <1>6, <2>1 DEF Matches
      <3>2. LRow[s].status = row[s].status /\ LRow[s].by = row[s].by
        BY DEF LRow, Project
      <3> QED BY <3>1, <3>2 DEF Ledger!HeldBy
    <2>3. Ledger!ReleaseSeats(c, L)
      BY <1>2, <1>4, <2>2 DEF Ledger!ReleaseSeats, LRow, Project
    <2> QED BY <2>3 DEF Ledger!LedgerNext
  <1>7. CASE tx[k].kind = "cleanup"
    <2>1. ASSUME NEW s \in L PROVE LRow[s].status = "HELD" /\ LRow[s].lapsed
      <3>1. row[s].status = "HELD" /\ row[s].until < tx[k].at
        BY <1>5, <1>7 DEF Matches
      <3>2. /\ row[s].until \in Nat /\ tx[k].at \in Nat /\ clock \in Nat /\ tx[k].at <= clock
        BY LockingAssumption DEF LockInv, TypeOK, SeatRow, Times, TxType, RequestOK
      <3>3. Late(row[s], clock)
        BY <3>1, <3>2 DEF Late
      <3>4. LRow[s] = View(row[s], TRUE)
        BY <3>3, Views DEF LRow
      <3>5. View(row[s], TRUE).status = row[s].status /\ View(row[s], TRUE).lapsed = TRUE
        BY DEF View
      <3> QED BY <3>1, <3>4, <3>5, Zenon
    <2>2. Ledger!CleanupExpiredHolds(L)
      BY <1>2, <1>4, <2>1 DEF Ledger!CleanupExpiredHolds, LRow, Project
    <2> QED BY <2>2 DEF Ledger!LedgerNext
  <1> QED BY <1>6, <1>7 DEF DeleteCommit

(* Every step is a step of the ledger or a stutter.                         *)
LEMMA StepRefines == LockInv /\ [Next]_vars => [Ledger!LedgerNext]_(Ledger!ledgerVars)
  <1> SUFFICES ASSUME LockInv, [Next]_vars PROVE [Ledger!LedgerNext]_(Ledger!ledgerVars)
    OBVIOUS
  <1>1. CASE Tick
    BY <1>1, TickRefines
  <1>2. ASSUME NEW k \in Conns, Arrive(k) PROVE UNCHANGED <<clock, row, bookings>>
    BY <1>2 DEF Arrive, HoldSeatsBegin, ConfirmBookingBegin, ReleaseSeatsBegin,
                CleanupExpiredHoldsBegin, DeleteBegin, Begin
  <1>3. ASSUME NEW k \in Conns, Proceed(k)
        PROVE  Ledger!LedgerNext \/ UNCHANGED <<clock, row, bookings>>
    <2>1. CASE HoldSeatsCommit(k) \/ ConfirmBookingCommit(k) \/ DeleteCommit(k)
      BY <2>1, HoldCommitRefines, ConfirmCommitRefines, DeleteCommitRefines
    <2>2. CASE HoldSeatsSelect(k) \/ HoldSeatsInsert(k) \/ DeleteVisit(k)
      BY <2>2 DEF HoldSeatsSelect, HoldSeatsInsert, DeleteVisit
    <2>3. CASE HoldSeatsConflict(k) \/ ConfirmBookingCheck(k)
      BY <2>3 DEF HoldSeatsConflict, ConfirmBookingCheck, Rollback
    <2> QED BY <1>3, <2>1, <2>2, <2>3 DEF Proceed
  <1>4. ASSUME NEW k \in Conns, DeadlockAbort(k) \/ StatementFails(k)
        PROVE  UNCHANGED <<clock, row, bookings>>
    BY <1>4 DEF DeadlockAbort, StatementFails, Rollback
  <1>5. CASE UNCHANGED vars
    BY <1>5, StutterRefines DEF vars
  <1> QED BY <1>1, <1>2, <1>3, <1>4, <1>5, StutterRefines DEF Next

(* The statements of the seat endpoints, interleaved in any way over any   *)
(* number of connections, implement the atomic operations of SeatLedger.   *)
THEOREM LockingImplementsLedger == Spec => ImplementsLedger
  <1> QED
    BY InitInv, StepInv, InitRefines, StepRefines, PTL
    DEF Spec, ImplementsLedger, Ledger!LedgerSpec

-----------------------------------------------------------------------------
(* What is proved of the ledger holds of its implementation. *)
Promise == INSTANCE SeatLedgerProofs WITH
  row <- [s \in Seats |-> [status |-> row[s].status, by |-> row[s].by,
                           lapsed |-> row[s].status = "HELD" /\ row[s].until < clock]]

(* The instance whose theorems are cited is the one SeatLocking implements. *)
LEMMA LockingKeepsPromise == Spec => Promise!LedgerSpec
  <1>1. ImplementsLedger => Promise!LedgerSpec
    <2>1. Ledger!LedgerInit => Promise!LedgerInit
      BY DEF Ledger!LedgerInit, Promise!LedgerInit, Ledger!NoRow, Promise!NoRow,
           Ledger!OpenRow, Promise!OpenRow
    <2>2. Ledger!LedgerNext => Promise!LedgerNext
      BY DEF Ledger!LedgerNext, Promise!LedgerNext, Ledger!HoldSeats, Promise!HoldSeats,
           Ledger!ConfirmBooking, Promise!ConfirmBooking, Ledger!ReleaseSeats,
           Promise!ReleaseSeats, Ledger!CleanupExpiredHolds, Promise!CleanupExpiredHolds,
           Ledger!Lapse, Promise!Lapse, Ledger!Takeable, Promise!Takeable, Ledger!HeldBy,
           Promise!HeldBy, Ledger!With, Promise!With, Ledger!NoRow, Promise!NoRow,
           Ledger!HeldRow, Promise!HeldRow, Ledger!BookedRow, Promise!BookedRow
    <2>3. UNCHANGED Ledger!ledgerVars => UNCHANGED Promise!ledgerVars
      BY DEF Ledger!ledgerVars, Promise!ledgerVars
    <2> QED BY <2>1, <2>2, <2>3, PTL DEF ImplementsLedger, Ledger!LedgerSpec, Promise!LedgerSpec
  <1> QED BY <1>1, LockingImplementsLedger, PTL

(* No two requests ever sell the same seat, whatever the interleaving of   *)
(* the statements of holdSeats and confirmBooking.                         *)
THEOREM LockingSellsSeatsOnce == Spec => []SeatSoldOnce
  <1>1. NoCustomer \notin Customers
    BY LockingAssumption
  <1>2. Promise!LedgerSpec => []Promise!SeatSoldOnce
    BY <1>1, Promise!LedgerSellsSeatsOnce
  <1>3. Promise!SeatSoldOnce => SeatSoldOnce
    BY DEF Promise!SeatSoldOnce, SeatSoldOnce
  <1> QED BY <1>2, <1>3, LockingKeepsPromise, PTL

(* The seat map and the booking list agree, whatever statements of the     *)
(* seat endpoints interleave (booking.Controller.js:163-177).              *)
THEOREM LockingRowsMatchBookings == Spec => []BookedMatchesBookings
  <1>1. NoCustomer \notin Customers
    BY LockingAssumption
  <1>2. Promise!LedgerSpec => []Promise!BookedMatchesBookings
    BY <1>1, Promise!LedgerRowsMatchBookings
  <1>3. TypeOK /\ Promise!BookedMatchesBookings => BookedMatchesBookings
    <2> SUFFICES ASSUME TypeOK, Promise!BookedMatchesBookings
                 PROVE  BookedMatchesBookings
      OBVIOUS
    <2>1. ASSUME NEW s \in Seats, row[s].status = "BOOKED"
          PROVE  \E i \in DOMAIN bookings : s \in bookings[i].seats /\ bookings[i].who = row[s].by
      BY <2>1 DEF Promise!BookedMatchesBookings
    <2>2. ASSUME NEW i \in DOMAIN bookings, NEW s \in bookings[i].seats
          PROVE  row[s].status = "BOOKED" /\ row[s].by = bookings[i].who
      <3>1. bookings[i] \in Booking
        BY DEF TypeOK
      <3>2. s \in Seats
        BY <3>1 DEF Booking
      <3> QED BY <3>2 DEF Promise!BookedMatchesBookings, Promise!BookedRow
    <2> QED BY <2>1, <2>2 DEF BookedMatchesBookings
  <1> QED BY <1>2, <1>3, LockingKeepsPromise, LockingTypeCorrect, PTL
=============================================================================
