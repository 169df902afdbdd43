---------------------------- MODULE MCSeatLocking ----------------------------
(* Two connections of the pool and two customers on a show of two seats;   *)
(* requests name one or two seats in either order.                         *)
EXTENDS SeatLocking, TLC

Lists == UNION {[1 .. n -> Seats] : n \in 1 .. 2}
MCSymmetry == Permutations(Customers) \cup Permutations(Conns) \cup Permutations(Seats)
=============================================================================
