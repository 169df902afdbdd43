----------------------------- MODULE MCPayments -----------------------------
EXTENDS Payments, TLC

MCSymmetry == Permutations(Customers) \cup Permutations(Seats)
              \cup Permutations(OrderIds) \cup Permutations(PayIds)
              \cup Permutations(VerifyCalls)
=============================================================================
