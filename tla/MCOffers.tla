------------------------------ MODULE MCOffers ------------------------------
(* Model checking of Offers: customers, offers, codes and orders are interchangeable. *)
EXTENDS Offers, TLC

MCSymmetry == Permutations(Customers) \cup Permutations(OfferIds) \cup Permutations(Codes) \cup Permutations(OrderIds)
=============================================================================
