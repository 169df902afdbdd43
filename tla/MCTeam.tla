-------------------------------- MODULE MCTeam --------------------------------
(* Two account holders with two names each, and one member of staff.       *)
EXTENDS Team, TLC

MCSymmetry == Permutations(Admins \ Staff) \cup Permutations(Names) \cup Permutations(Requests)
=============================================================================
